---------------------------- MODULE Spec2Model ----------------------------
(***************************************************************************)
(* A model of the svn-scm command execution core:                          *)
(*   - Svn.exec (src/src/svn.ts): spawn, listener registration, the three  *)
(*     awaited promises, encoding resolution, decoding, error construction *)
(*   - getSvnErrorCode and the stderr display clean-up                     *)
(*   - SvnCommands.runByRepository and the commands svn.resolve,           *)
(*     svn.commitWithMessage, svn.commit, svn.resolveAll and svn.resolved  *)
(*     (src/unnamed/part_000)                                              *)
(*                                                                         *)
(* Text is modelled as a sequence of lexemes (stderr) or of bytes (stdout) *)
(* so that concatenation, pattern matching and decoding are computed.      *)
(***************************************************************************)
EXTENDS Integers, Sequences, FiniteSets, TLC

VARIABLES
    env,            \* the input universe of the run (fixed by Init)
    pc,             \* position of the exec call: "idle", "awaiting", "settled"
    calls,          \* number of exec calls started so far
    lastCwd,        \* Svn.lastCwd
    args,           \* the args array of the call (after the credential pushes)
    options,        \* the options object of the call (after exec's mutations)
    encoding,       \* the local `encoding` of the call
    output,         \* lines emitted on onOutput ('log') by the current call
    listeners,      \* listeners attached to the child process and its streams
    disposables,    \* the disposables array of the call
    procState,      \* child process: "none", "running", "exited", "failed"
    stdoutOpen,     \* the stdout stream has not emitted 'close'
    stderrOpen,     \* the stderr stream has not emitted 'close'
    exitPromise,    \* first promise of Promise.all
    stdoutPromise,  \* second promise of Promise.all
    stderrPromise,  \* third promise of Promise.all
    stdoutBuffers,  \* buffers array of the stdout promise
    stderrBuffers,  \* buffers array of the stderr promise
    stdoutSeen,     \* every chunk the stdout stream emitted, in arrival order
    stderrSeen,     \* every chunk the stderr stream emitted, in arrival order
    ratioBumps,     \* times jschardet.MacCyrillicModel.mTypicalPositiveRatio was raised
    read,           \* what the continuation read: configuration and detector guess
    procError,      \* the error the child process emitted, if any
    outcome,        \* how the exec promise settled
    cmd,            \* position of the command: "idle", "picking", "dispatched", "done"
    selection,      \* the resources the command acts on
    choice,         \* the label picked in the quick pick
    uris,           \* runByRepository: the resources it was given
    groups,         \* runByRepository: the {repository, resources} tuples
    promises,       \* runByRepository: the promise of each group's fn call
    allPromise,     \* runByRepository: Promise.all(promises)
    repoCalls,      \* calls made on Repository objects, in order
    console,        \* console.warn / console.error lines
    cmdOutcome,     \* how the command's own promise settled
    classified,     \* a call of getSvnErrorCode: its argument and its result
    inputBox,       \* repository.inputBox.value, the pending commit message
    ui,             \* prompts and messages shown in the window, in order
    cmdRepository,  \* the repository argument of the command
    cmdMessage,     \* the local `message` of the command
    fnPc,           \* position of each group's fn: "prompt", "await",
                    \* "dismissed" (returned without a message), "returned"
    conflictAt,     \* svn.resolveAll: position of the loop in the conflicts
    autoResolve,    \* svn.resolved: the setting conflict.autoResolve as read
    opened,         \* a call of _openResource: its arguments and what it computed
    revPc,          \* revertChanges: "idle", "opening", "asking", "saving",
                    \* "returned", "thrown"
    document,       \* revertChanges: textEditor.document as the editor holds it
    disk,           \* the content of the file of that document
    original,       \* revertChanges: the BASE document once opened
    revChanges,     \* revertChanges: the line changes it was given
    revPick,        \* revertChanges: the answer to the modal warning
    edit,           \* the workspace edit handed to workspace.applyEdit
    saves           \* what modifiedDocument.save() wrote, in order

execVars == <<pc, calls, lastCwd, args, options, encoding, output, listeners,
              disposables, procState, stdoutOpen, stderrOpen, exitPromise,
              stdoutPromise, stderrPromise, stdoutBuffers, stderrBuffers,
              stdoutSeen, stderrSeen, ratioBumps, read, procError, outcome>>

classifyVars == <<classified>>

commitVars == <<inputBox, ui, cmdRepository, cmdMessage, fnPc>>

loopVars == <<conflictAt, autoResolve>>

diffVars == <<opened>>

revertVars == <<revPc, document, disk, original, revChanges, revPick, edit, saves>>

cmdVars == <<cmd, selection, choice, uris, groups, promises, allPromise, repoCalls,
             console, cmdOutcome, classifyVars, commitVars, loopVars,
             diffVars, revertVars>>

-----------------------------------------------------------------------------
(* Bounds *)

MaxChunks == 2      \* data events per stream and call
MaxCalls == 1       \* exec calls in one run
MaxText == 4        \* lexemes of a stderr text given to the classifier
MaxSelection == 3   \* resources in one command invocation
MaxEchoCalls == 2   \* exec calls in a run of calls on one instance

(* Program constants *)

ConfidenceThreshold == 80   \* 0.8, in hundredths

-----------------------------------------------------------------------------
(* Generic helpers *)

RECURSIVE Flatten(_)
Flatten(chunks) ==
    IF chunks = <<>> THEN <<>> ELSE Head(chunks) \o Flatten(Tail(chunks))

SeqsUpTo(S, n) == UNION {[1..k -> S] : k \in 0..n}

Last(s) == s[Len(s)]

None == "<undefined>"

-----------------------------------------------------------------------------
(* The error-code vocabulary and the classifier *)

svnErrorCodeNames ==
    <<"AuthorizationFailed", "RepositoryIsLocked", "NotASvnRepository",
      "NotShareCommonAncestry", "WorkingCopyIsTooOld">>

svnErrorCodes ==
    [name \in {svnErrorCodeNames[i] : i \in 1..Len(svnErrorCodeNames)} |->
        CASE name = "AuthorizationFailed"    -> "E170001"
          [] name = "RepositoryIsLocked"     -> "E155004"
          [] name = "NotASvnRepository"      -> "E155007"
          [] name = "NotShareCommonAncestry" -> "E195012"
          [] name = "WorkingCopyIsTooOld"    -> "E155036"]

\* Lexemes of stderr text.  "svn: " is the tool prefix, an E-lexeme is an
\* error token (E followed by digits), ": " is a colon followed by a blank,
\* "\n" ends a line; everything else is free text.
ELexemes == {"E170001", "E155004", "E155007", "E195012", "E155036", "E200009"}
CredentialsPhrase == "No more credentials or we tried too many times"

\* the code anywhere in the text, with or without the tool prefix
MatchesCodeAnywhere(stderr, code) ==
    \E i \in 1..Len(stderr) : stderr[i] = code

\* new RegExp(`svn: ${code}`).test(stderr)
MatchesCode(stderr, code) ==
    \E i \in 1..(Len(stderr) - 1) : stderr[i] = "svn: " /\ stderr[i + 1] = code

\* a scan of the table from its last entry to its first
RECURSIVE ScanTableReversed(_, _)
ScanTableReversed(stderr, i) ==
    IF i > Len(svnErrorCodeNames) THEN None
    ELSE LET code == svnErrorCodes[svnErrorCodeNames[
                         Len(svnErrorCodeNames) + 1 - i]]
         IN  IF MatchesCode(stderr, code) THEN code
             ELSE ScanTableReversed(stderr, i + 1)

RECURSIVE ScanTable(_, _)
ScanTable(stderr, i) ==
    IF i > Len(svnErrorCodeNames) THEN None
    ELSE IF MatchesCode(stderr, svnErrorCodes[svnErrorCodeNames[i]])
         THEN svnErrorCodes[svnErrorCodeNames[i]]
         ELSE ScanTable(stderr, i + 1)

getSvnErrorCode(stderr) ==
    IF ScanTable(stderr, 1) # None THEN ScanTable(stderr, 1)
    ELSE IF \E i \in 1..Len(stderr) : stderr[i] = CredentialsPhrase
         THEN svnErrorCodes["AuthorizationFailed"]
         ELSE None

\* no call of the classifier on its own
NoClassified == [stderr |-> <<>>, svnErrorCode |-> None, returned |-> FALSE]

\* getSvnErrorCode(stderr) is called and returns
Classify ==
    /\ ~classified.returned
    /\ classified' = [classified EXCEPT
                          !.svnErrorCode = getSvnErrorCode(classified.stderr),
                          !.returned = TRUE]

\* stderr.replace(/^svn: E\d+: +/gm, "")
AtLineStart(text, i) == i = 1 \/ text[i - 1] = "\n"

PrefixAt(text, i) ==
    /\ AtLineStart(text, i)
    /\ i + 2 <= Len(text)
    /\ text[i] = "svn: "
    /\ text[i + 1] \in ELexemes
    /\ text[i + 2] = ": "

RECURSIVE StripFrom(_, _)
StripFrom(text, i) ==
    IF i > Len(text) THEN <<>>
    ELSE IF PrefixAt(text, i) THEN StripFrom(text, i + 3)
         ELSE <<text[i]>> \o StripFrom(text, i + 1)

stderrFormated(stderr) == StripFrom(stderr, 1)


-----------------------------------------------------------------------------
(* Encodings: iconv.encodingExists, is-utf8, iconv.decode *)

NoEncoding == ""            \* an absent encoding name (undefined, null, "")

\* The codec iconv-lite resolves an encoding name to; None when the name is
\* not a supported encoding.
Codec(name) ==
    CASE name \in {"utf8", "UTF-8"} -> "utf8"
      [] name = "windows-1252"      -> "cp1252"
      [] name = "ascii"             -> "ascii"
      [] OTHER                      -> None

encodingExists(name) == Codec(name) # None

IsCont(b) == b >= 128 /\ b <= 191
IsLead2(b) == b >= 194 /\ b <= 223

\* isUtf8(bytes): the bytes are well-formed UTF-8 (one and two byte forms)
RECURSIVE isUtf8(_)
isUtf8(bytes) ==
    IF bytes = <<>> THEN TRUE
    ELSE IF Head(bytes) < 128 THEN isUtf8(Tail(bytes))
    ELSE IF IsLead2(Head(bytes)) /\ Len(bytes) >= 2 /\ IsCont(bytes[2])
         THEN isUtf8(Tail(Tail(bytes)))
         ELSE FALSE

ReplacementChar == 65533    \* U+FFFD

RECURSIVE DecodeUtf8(_)
DecodeUtf8(bytes) ==
    IF bytes = <<>> THEN <<>>
    ELSE IF Head(bytes) < 128 THEN <<Head(bytes)>> \o DecodeUtf8(Tail(bytes))
    ELSE IF IsLead2(Head(bytes)) /\ Len(bytes) >= 2 /\ IsCont(bytes[2])
         THEN <<(Head(bytes) - 192) * 64 + (bytes[2] - 128)>>
              \o DecodeUtf8(Tail(Tail(bytes)))
         ELSE <<ReplacementChar>> \o DecodeUtf8(Tail(bytes))

DecodeSingleByte(bytes, codec) ==
    [i \in 1..Len(bytes) |->
        IF bytes[i] < 128 THEN bytes[i]
        ELSE IF codec = "ascii" THEN ReplacementChar
        ELSE bytes[i]]      \* cp1252 agrees with Latin-1 from 0xA0 upwards

\* iconv.decode(bytes, encoding) for a supported encoding: the code points
decode(bytes, name) ==
    IF Codec(name) = "utf8" THEN DecodeUtf8(bytes)
    ELSE DecodeSingleByte(bytes, Codec(name))

Includes(seq, x) == \E i \in 1..Len(seq) : seq[i] = x

\* The encoding exec hands to iconv.decode (svn.ts 145-172).  `enc` is the
\* local `encoding` set from the per-call hint, `guess` is what
\* jschardet.detect returns for the bytes.
ResolveEncodingHintIgnored(argv, enc, defaultEncoding, stdout, guess) ==
    IF Includes(argv, "--xml") THEN "utf8"
    ELSE IF defaultEncoding # NoEncoding
         THEN IF ~encodingExists(defaultEncoding) THEN "utf8"
              ELSE IF ~isUtf8(stdout) THEN defaultEncoding ELSE "utf8"
         ELSE IF /\ guess.confidence > ConfidenceThreshold
                 /\ encodingExists(guess.encoding)
              THEN guess.encoding
              ELSE "utf8"

ResolveEncodingXmlIgnored(argv, enc, defaultEncoding, stdout, guess) ==
    IF defaultEncoding # NoEncoding
    THEN IF ~encodingExists(defaultEncoding) THEN enc
         ELSE IF ~isUtf8(stdout) THEN defaultEncoding ELSE enc
    ELSE IF /\ guess.confidence > ConfidenceThreshold
            /\ encodingExists(guess.encoding)
         THEN guess.encoding
         ELSE enc

ResolveEncodingFallThrough(argv, enc, defaultEncoding, stdout, guess) ==
    IF Includes(argv, "--xml") THEN "utf8"
    ELSE IF defaultEncoding # NoEncoding /\ encodingExists(defaultEncoding)
         THEN IF ~isUtf8(stdout) THEN defaultEncoding ELSE enc
         ELSE IF /\ guess.confidence > ConfidenceThreshold
                 /\ encodingExists(guess.encoding)
              THEN guess.encoding
              ELSE enc

ResolveEncodingAtLeast(argv, enc, defaultEncoding, stdout, guess) ==
    IF Includes(argv, "--xml") THEN "utf8"
    ELSE IF defaultEncoding # NoEncoding
         THEN IF ~encodingExists(defaultEncoding) THEN enc
              ELSE IF ~isUtf8(stdout) THEN defaultEncoding ELSE enc
         ELSE IF /\ guess.confidence >= ConfidenceThreshold
                 /\ encodingExists(guess.encoding)
              THEN guess.encoding
              ELSE enc

ResolveEncoding(argv, enc, defaultEncoding, stdout, guess) ==
    IF Includes(argv, "--xml") THEN "utf8"
    ELSE IF defaultEncoding # NoEncoding
         THEN IF ~encodingExists(defaultEncoding) THEN enc
              ELSE IF ~isUtf8(stdout) THEN defaultEncoding ELSE enc
         ELSE IF /\ guess.confidence > ConfidenceThreshold
                 /\ encodingExists(guess.encoding)
              THEN guess.encoding
              ELSE enc

\* The invalid default.encoding diagnostic is emitted (svn.ts 149-156)
InvalidEncodingLogged(argv, defaultEncoding) ==
    /\ ~Includes(argv, "--xml")
    /\ defaultEncoding # NoEncoding
    /\ ~encodingExists(defaultEncoding)

\* jschardet.detect is called (svn.ts 160-163)
DetectionRuns(argv, defaultEncoding) ==
    ~Includes(argv, "--xml") /\ defaultEncoding = NoEncoding

-----------------------------------------------------------------------------
(* Svn.exec: the synchronous part, up to the await *)

Pending == [state |-> "pending", value |-> <<>>]
Resolved(v) == [state |-> "resolved", value |-> v]
Rejected(e) == [state |-> "rejected", value |-> e]

NoOutcome ==
    [kind |-> "pending", class |-> None, message |-> None, exitCode |-> <<>>,
     stdout |-> <<>>, stderr |-> <<>>, stderrFormated |-> <<>>,
     svnErrorCode |-> None, svnCommand |-> None, encoding |-> None]

Options(log, username, password, enc) ==
    [cwd |-> <<>>, log |-> log, username |-> username, password |-> password,
     encoding |-> enc]

Err(message) == [class |-> "Error", message |-> message, svnErrorCode |-> None]
NoError == Err(None)

NoRead == [hint |-> "utf8", defaultEncoding |-> NoEncoding,
           guess |-> [encoding |-> NoEncoding, confidence |-> 0],
           detected |-> FALSE]

\* args.map(arg => (/ |^$/.test(arg) ? `'${arg}'` : arg))
ArgsWithBlank == {"fix the bug"}
NeedsQuotes(arg) == arg = "" \/ arg \in ArgsWithBlank
argsOut(argv) ==
    [i \in 1..Len(argv) |-> [text |-> argv[i], quoted |-> NeedsQuotes(argv[i])]]

\* lastCwd.split(/[\\\/]+/).pop(): a path is its sequence of segments
\* shift() in place of pop()
FirstSegment(path) == IF path = <<>> THEN "" ELSE path[1]

LastSegment(path) == IF path = <<>> THEN "" ELSE Last(path)

EchoLine(cwd, argv) ==
    [kind |-> "echo", prefix |-> LastSegment(cwd), args |-> argsOut(argv),
     text |-> <<>>]

InvalidEncodingLine(name) ==
    [kind |-> "invalid-encoding", prefix |-> name, args |-> <<>>, text |-> <<>>]

StderrLine(text) ==
    [kind |-> "stderr", prefix |-> "", args |-> <<>>, text |-> text]

\* the once/on helpers: the six listeners of one call, in registration order
Registrations(call) ==
    << <<call, "process", "error">>, <<call, "process", "exit">>,
       <<call, "stdout", "data">>,   <<call, "stdout", "close">>,
       <<call, "stderr", "data">>,   <<call, "stderr", "close">> >>

Range(seq) == {seq[i] : i \in 1..Len(seq)}

WithCredentials(argv, opts) ==
    argv
    \o (IF opts.username # "" THEN <<"--username", opts.username>> ELSE <<>>)
    \o (IF opts.password # "" THEN <<"--password", opts.password>> ELSE <<>>)

\* the synchronous part of exec, up to the await
ExecBegin(cwd, argv, opts) ==
    /\ calls' = calls + 1
    /\ lastCwd' = IF cwd # <<>> THEN cwd ELSE lastCwd
    /\ options' = [opts EXCEPT !.cwd = IF cwd # <<>> THEN cwd ELSE @,
                               !.encoding = NoEncoding]
    /\ output' = IF opts.log # FALSE THEN <<EchoLine(lastCwd', argv)>> ELSE <<>>
    /\ args' = WithCredentials(argv, opts)
    /\ encoding' = IF opts.encoding # NoEncoding THEN opts.encoding ELSE "utf8"
    /\ procState' = "running"
    /\ stdoutOpen' = TRUE
    /\ stderrOpen' = TRUE
    /\ listeners' = listeners \cup Range(Registrations(calls'))
    /\ disposables' = Registrations(calls')
    /\ exitPromise' = Pending
    /\ stdoutPromise' = Pending
    /\ stderrPromise' = Pending
    /\ stdoutBuffers' = <<>>
    /\ stderrBuffers' = <<>>
    /\ stdoutSeen' = <<>>
    /\ stderrSeen' = <<>>
    /\ read' = NoRead
    /\ procError' = NoError
    /\ outcome' = NoOutcome
    /\ pc' = "awaiting"
    /\ UNCHANGED <<env, ratioBumps, cmdVars>>

ExecCall(cwd, argv, opts) ==
    /\ pc \in {"idle", "settled"}
    /\ calls < MaxCalls
    /\ ExecBegin(cwd, argv, opts)

-----------------------------------------------------------------------------
(* The events of the child process and of its streams *)

\* Promise.all has settled and the continuation of the await is queued: it
\* runs before any further event is delivered
AllResolvedExitOnly == exitPromise.state = "resolved"

\* the await goes on without the stderr promise
AllResolvedWithoutStderr ==
    /\ exitPromise.state = "resolved"
    /\ stdoutPromise.state = "resolved"

AllResolved ==
    /\ exitPromise.state = "resolved"
    /\ stdoutPromise.state = "resolved"
    /\ stderrPromise.state = "resolved"

ContinuationQueued ==
    pc = "awaiting" /\ (exitPromise.state = "rejected" \/ AllResolved)

Attached(ee, name) == <<calls, ee, name>> \in listeners

\* a further call on the same instance, also while the call before it is
\* still awaiting its process: exec runs synchronously up to the await, so
\* the new call's echo and push happen in one step; the model goes on with
\* the new call, the listeners of the earlier one stay attached
ExecCallNext(cwd, argv, opts) ==
    /\ pc \in {"awaiting", "settled"}
    /\ ~ContinuationQueued
    /\ calls < MaxEchoCalls
    /\ ExecBegin(cwd, argv, opts)

\* the caller passes the array of the call before: args.push has grown it
ExecCallSameArray(cwd, opts) == ExecCallNext(cwd, args, opts)

Settle(promise, settled) ==
    IF promise.state = "pending" THEN settled ELSE promise

eventUnchanged == <<cmdVars, env, pc, calls, lastCwd, args, options, encoding, output,
                    disposables, ratioBumps, read, outcome>>

HasENOENT(message) == message \in {"spawn svn ENOENT"}

\* cpErrorHandler(cb): the error handed to cb
cpErrorHandler(err) ==
    IF HasENOENT(err.message)
    THEN [class |-> "SvnError", message |-> "Failed to execute svn (ENOENT)",
          svnErrorCode |-> "NotASvnRepository"]
    ELSE err

\* the handler exec registers for 'error': once(process, "error", reject)
OnProcessError(err) == err

\* the child process emits 'error' (it could not be launched)
ProcessError(err) ==
    /\ procState = "running"
    /\ ~ContinuationQueued
    /\ procState' = "failed"
    /\ procError' = err
    /\ IF Attached("process", "error")
       THEN /\ listeners' = listeners \ {<<calls, "process", "error">>}
            /\ exitPromise' = Settle(exitPromise, Rejected(OnProcessError(err)))
       ELSE UNCHANGED <<listeners, exitPromise>>
    /\ UNCHANGED <<stdoutOpen, stderrOpen, stdoutPromise, stderrPromise,
                   stdoutBuffers, stderrBuffers, stdoutSeen, stderrSeen>>
    /\ UNCHANGED eventUnchanged

\* the child process emits 'exit' (after a failed launch it may or may not)
ProcessExit(code) ==
    /\ procState \in {"running", "failed"}
    /\ ~ContinuationQueued
    /\ procState' = "exited"
    /\ IF Attached("process", "exit")
       THEN /\ listeners' = listeners \ {<<calls, "process", "exit">>}
            /\ exitPromise' = Settle(exitPromise, Resolved(code))
       ELSE UNCHANGED <<listeners, exitPromise>>
    /\ UNCHANGED <<stdoutOpen, stderrOpen, stdoutPromise, stderrPromise,
                   stdoutBuffers, stderrBuffers, stdoutSeen, stderrSeen>>
    /\ UNCHANGED procError
    /\ UNCHANGED eventUnchanged

StdoutData(b) ==
    /\ procState # "none"
    /\ stdoutOpen
    /\ ~ContinuationQueued
    /\ Len(stdoutSeen) < MaxChunks
    /\ stdoutSeen' = Append(stdoutSeen, b)
    /\ stdoutBuffers' = IF Attached("stdout", "data")
                        THEN Append(stdoutBuffers, b) ELSE stdoutBuffers
    /\ UNCHANGED <<procState, listeners, exitPromise, stdoutOpen, stderrOpen,
                   stdoutPromise, stderrPromise, stderrBuffers, stderrSeen>>
    /\ UNCHANGED procError
    /\ UNCHANGED eventUnchanged

StdoutClose ==
    /\ procState # "none"
    /\ stdoutOpen
    /\ ~ContinuationQueued
    /\ stdoutOpen' = FALSE
    /\ IF Attached("stdout", "close")
       THEN /\ listeners' = listeners \ {<<calls, "stdout", "close">>}
            /\ stdoutPromise' =
                   Settle(stdoutPromise, Resolved(Flatten(stdoutBuffers)))
       ELSE UNCHANGED <<listeners, stdoutPromise>>
    /\ UNCHANGED <<procState, exitPromise, stderrOpen, stderrPromise,
                   stdoutBuffers, stderrBuffers, stdoutSeen, stderrSeen>>
    /\ UNCHANGED procError
    /\ UNCHANGED eventUnchanged

StderrData(b) ==
    /\ procState # "none"
    /\ stderrOpen
    /\ ~ContinuationQueued
    /\ Len(stderrSeen) < MaxChunks
    /\ stderrSeen' = Append(stderrSeen, b)
    /\ stderrBuffers' = IF Attached("stderr", "data")
                        THEN Append(stderrBuffers, b) ELSE stderrBuffers
    /\ UNCHANGED <<procState, listeners, exitPromise, stdoutOpen, stderrOpen,
                   stdoutPromise, stderrPromise, stdoutBuffers, stdoutSeen>>
    /\ UNCHANGED procError
    /\ UNCHANGED eventUnchanged

StderrClose ==
    /\ procState # "none"
    /\ stderrOpen
    /\ ~ContinuationQueued
    /\ stderrOpen' = FALSE
    /\ IF Attached("stderr", "close")
       THEN /\ listeners' = listeners \ {<<calls, "stderr", "close">>}
            /\ stderrPromise' =
                   Settle(stderrPromise, Resolved(Flatten(stderrBuffers)))
       ELSE UNCHANGED <<listeners, stderrPromise>>
    /\ UNCHANGED <<procState, exitPromise, stdoutOpen, stdoutPromise,
                   stdoutBuffers, stderrBuffers, stdoutSeen, stderrSeen>>
    /\ UNCHANGED procError
    /\ UNCHANGED eventUnchanged

-----------------------------------------------------------------------------
(* Svn.exec: what follows the await *)

\* JavaScript truthiness of an exit code: <<>> is null (ended by a signal)
Truthy(code) == code # <<>> /\ code[1] # 0

\* the await throws: Promise.all was rejected by the 'error' listener
ExecThrow ==
    /\ pc = "awaiting"
    /\ exitPromise.state = "rejected"
    /\ outcome' = [NoOutcome EXCEPT
                      !.kind = "rejected",
                      !.class = exitPromise.value.class,
                      !.message = exitPromise.value.message,
                      !.svnErrorCode = exitPromise.value.svnErrorCode]
    /\ pc' = "settled"
    /\ UNCHANGED <<cmdVars, env, calls, lastCwd, args, options, encoding, output,
                   listeners, disposables, procState, stdoutOpen, stderrOpen,
                   exitPromise, stdoutPromise, stderrPromise, stdoutBuffers,
                   stderrBuffers, stdoutSeen, stderrSeen, ratioBumps, read,
                   procError>>

\* dispose(disposables)
Dispose(attached, toDispose) == attached \ Range(toDispose)

SvnErrorOutcome(exitCode, decodedStdout, stderr, enc) ==
    [kind |-> "rejected", class |-> "SvnError",
     message |-> "Failed to execute svn", exitCode |-> exitCode,
     stdout |-> decodedStdout, stderr |-> stderr,
     stderrFormated |-> stderrFormated(stderr),
     svnErrorCode |-> getSvnErrorCode(stderr), svnCommand |-> args[1],
     encoding |-> enc]

ResultOutcome(exitCode, decodedStdout, stderr, enc) ==
    [NoOutcome EXCEPT !.kind = "resolved", !.exitCode = exitCode,
                      !.stdout = decodedStdout, !.stderr = stderr,
                      !.encoding = enc]

\* iconv.decode throws for an encoding name it does not know
DecodeErrorOutcome(enc) ==
    [NoOutcome EXCEPT !.kind = "rejected", !.class = "Error",
                      !.message = "Encoding not recognized",
                      !.encoding = enc]

\* svn.ts 180: if (exitCode)
Settlement(exitCode, decodedStdout, stderr, enc) ==
    IF Truthy(exitCode)
    THEN SvnErrorOutcome(exitCode, decodedStdout, stderr, enc)
    ELSE ResultOutcome(exitCode, decodedStdout, stderr, enc)

\* svn.ts 176: the stderr passthrough
\* a passthrough of stderr that does not look at options.log
StderrLoggedAlways(opts, stderr) == Len(stderr) > 0

\* options.log !== false && stderr.length > 0
StderrLogged(opts, stderr) == opts.log # FALSE /\ Len(stderr) > 0

\* the three promises are resolved: svn.ts 143-194
ExecContinue(defaultEncoding, guess) ==
    /\ pc = "awaiting"
    /\ AllResolved
    /\ LET exitCode == exitPromise.value
           stdout == stdoutPromise.value
           stderr == stderrPromise.value
           enc == ResolveEncoding(args, encoding, defaultEncoding, stdout, guess)
           invalidLine ==
               IF InvalidEncodingLogged(args, defaultEncoding)
               THEN <<InvalidEncodingLine(defaultEncoding)>> ELSE <<>>
       IN  /\ listeners' = Dispose(listeners, disposables)
           /\ encoding' = enc
           /\ read' = [hint |-> encoding,
                       defaultEncoding |-> defaultEncoding, guess |-> guess,
                       detected |-> DetectionRuns(args, defaultEncoding)]
           /\ ratioBumps' = IF DetectionRuns(args, defaultEncoding)
                            THEN ratioBumps + 1 ELSE ratioBumps
           /\ IF encodingExists(enc)
              THEN /\ output' = output \o invalidLine
                                \o (IF StderrLogged(options, stderr)
                                    THEN <<StderrLine(stderr)>> ELSE <<>>)
                   /\ outcome' = Settlement(exitCode, decode(stdout, enc),
                                            stderr, enc)
              ELSE /\ output' = output \o invalidLine
                   /\ outcome' = DecodeErrorOutcome(enc)
    /\ pc' = "settled"
    /\ UNCHANGED <<cmdVars, env, calls, lastCwd, args, options, disposables, procState,
                   stdoutOpen, stderrOpen, exitPromise, stdoutPromise,
                   stderrPromise, stdoutBuffers, stderrBuffers, stdoutSeen,
                   stderrSeen, procError>>

-----------------------------------------------------------------------------
(* Input universes *)


Guess(enc, confidence) == [encoding |-> enc, confidence |-> confidence]

AuthLine == <<"svn: ", "E170001", ": ", "Authentication failed", "\n">>
PrefixHead == <<"svn: ">>
LockTail == <<"E155004", ": ", "Working copy locked", "\n">>

\* the process life cycle: every order of events, chunked output
EnvExec ==
    [cwds      |-> {<<"home", "wc">>},
     argvs     |-> {<<"update">>},
     options   |-> {Options(TRUE, "", "", NoEncoding),
                    Options(TRUE, "joe", "secret", "x-unknown")},
     stdoutChunks |-> {<<195>>, <<169>>},
     stderrChunks |-> {AuthLine, PrefixHead, LockTail},
     exitCodes |-> {<<0>>, <<1>>, <<>>},
     errors    |-> {Err("spawn svn ENOENT"), Err("spawn svn EACCES")},
     configs   |-> {NoEncoding},
     guesses   |-> {Guess("UTF-8", 100), Guess(NoEncoding, 0)}]

\* the encoding resolution: every source of an encoding name
EnvEncoding ==
    [cwds      |-> {<<"home", "wc">>},
     argvs     |-> {<<"update">>, <<"info", "--xml">>},
     options   |-> {Options(TRUE, "", "", NoEncoding),
                    Options(TRUE, "", "", "windows-1252"),
                    Options(FALSE, "", "", "x-unknown")},
     stdoutChunks |-> {<<195>>, <<169>>},
     stderrChunks |-> {AuthLine},
     exitCodes |-> {<<0>>, <<1>>},
     errors    |-> {Err("spawn svn ENOENT")},
     configs   |-> {NoEncoding, "ascii", "x-invalid"},
     guesses   |-> {Guess("windows-1252", 95), Guess("windows-1252", 80),
                    Guess("X-ISO-10646-UCS-4-3412", 95), Guess(NoEncoding, 0)}]

-----------------------------------------------------------------------------
(* The repository registry and SvnCommands.runByRepository *)

NoRepository == <<>>        \* getRepository found no owner (undefined)

IsPrefix(root, path) ==
    Len(root) <= Len(path) /\ \A i \in 1..Len(root) : root[i] = path[i]

\* Model.getRepository(uri): the registered root that is the longest prefix
\* of the path; a repository is identified by its root
getRepository(roots, path) ==
    LET owners == {r \in roots : IsPrefix(r, path)}
    IN  IF owners = {} THEN NoRepository
        ELSE CHOOSE r \in owners : \A o \in owners : Len(o) <= Len(r)

\* a reduce step that puts the group of a new repository in front
GroupStepNewestFirst(roots, result, resource) ==
    LET repository == getRepository(roots, resource)
        found == {i \in 1..Len(result) : result[i].repository = repository}
    IN  IF repository = NoRepository THEN result
        ELSE IF found # {}
             THEN LET i == CHOOSE j \in found : \A k \in found : j <= k
                  IN  [result EXCEPT ![i].resources = Append(@, resource)]
             ELSE <<[repository |-> repository, resources |-> <<resource>>]>>
                  \o result

\* a reduce step that files a resource without owner under NoRepository
GroupStepKeepsUnresolved(roots, result, resource) ==
    LET repository == getRepository(roots, resource)
        found == {i \in 1..Len(result) : result[i].repository = repository}
    IN  IF found # {}
        THEN LET i == CHOOSE j \in found : \A k \in found : j <= k
             IN  [result EXCEPT ![i].resources = Append(@, resource)]
        ELSE Append(result, [repository |-> repository,
                             resources |-> <<resource>>])

\* one step of the reduce in runByRepository
GroupStep(roots, result, resource) ==
    LET repository == getRepository(roots, resource)
        found == {i \in 1..Len(result) : result[i].repository = repository}
    IN  IF repository = NoRepository THEN result
        ELSE IF found # {}
             THEN LET i == CHOOSE j \in found : \A k \in found : j <= k
                  IN  [result EXCEPT ![i].resources = Append(@, resource)]
             ELSE Append(result, [repository |-> repository,
                                  resources |-> <<resource>>])

RECURSIVE GroupsFrom(_, _, _)
GroupsFrom(roots, result, resources) ==
    IF resources = <<>> THEN result
    ELSE GroupsFrom(roots, GroupStep(roots, result, Head(resources)),
                    Tail(resources))

Groups(roots, resources) == GroupsFrom(roots, <<>>, resources)

\* console.warn("Could not find Svn repository for ", resource)
Warnings(roots, resources) ==
    LET lost == SelectSeq(resources,
                          LAMBDA r : getRepository(roots, r) = NoRepository)
    IN  [i \in 1..Len(lost) |->
            [level |-> "warn", text |-> "Could not find Svn repository for"]]

PendingOp == [state |-> "pending", value |-> None]
FulfilledOp(v) == [state |-> "fulfilled", value |-> v]
RejectedOp(e) == [state |-> "rejected", value |-> e]

PendingAll == [state |-> "pending", value |-> <<>>]

\* Promise.all(ps), given its state before the last settlement: it rejects
\* with the first rejection, and fulfils with every value, in the order of
\* ps, once every promise has fulfilled
PromiseAll(all, ps) ==
    IF all.state # "pending" THEN all
    ELSE IF \E g \in 1..Len(ps) : ps[g].state = "rejected"
         THEN LET g == CHOOSE h \in 1..Len(ps) : ps[h].state = "rejected"
              IN  [state |-> "rejected", value |-> <<ps[g].value>>]
    ELSE IF \A g \in 1..Len(ps) : ps[g].state = "fulfilled"
         THEN [state |-> "fulfilled",
               value |-> [g \in 1..Len(ps) |-> ps[g].value]]
         ELSE all

-----------------------------------------------------------------------------
(* The svn.resolve command *)

ConflictPicks == {"working", "theirs-full"}

\* getResourceStates: the given resource states, or the resource of the
\* active editor when none is given
getResourceStates(resourceStates, active) ==
    IF resourceStates = <<>> THEN active ELSE resourceStates

\* svn.resolve up to the quick pick
ResolveStart(resourceStates, active) ==
    /\ cmd = "idle"
    /\ selection' = getResourceStates(resourceStates, active)
    /\ cmd' = IF selection' = <<>> THEN "done" ELSE "picking"
    /\ cmdOutcome' = IF selection' = <<>> THEN FulfilledOp(None) ELSE PendingOp
    /\ UNCHANGED <<choice, uris, groups, promises, allPromise, repoCalls, console>>
    /\ UNCHANGED <<env, execVars, revertVars, diffVars, loopVars, classifyVars, commitVars>>

\* the quick pick was dismissed
ResolveDismissed ==
    /\ cmd = "picking"
    /\ cmd' = "done"
    /\ cmdOutcome' = FulfilledOp(None)
    /\ UNCHANGED <<selection, choice, uris, groups, promises, allPromise,
                   repoCalls, console>>
    /\ UNCHANGED <<env, execVars, revertVars, diffVars, loopVars, classifyVars, commitVars>>

\* the fn of svn.resolve, up to its await: repository.resolve(files, label)
ResolveFnCall(group, label) ==
    [repository |-> group.repository, method |-> "resolve",
     files |-> group.resources, action |-> label]

\* a label was picked: runByRepository groups the uris and calls fn on
\* every group before any of the calls is awaited
ResolvePicked(label) ==
    /\ cmd = "picking"
    /\ choice' = label
    /\ uris' = selection
    /\ groups' = Groups(env.roots, uris')
    /\ console' = console \o Warnings(env.roots, uris')
    /\ repoCalls' = repoCalls
                    \o [g \in 1..Len(groups') |-> ResolveFnCall(groups'[g], label)]
    /\ promises' = [g \in 1..Len(groups') |-> PendingOp]
    /\ allPromise' = PromiseAll(PendingAll, promises')
    /\ cmd' = "dispatched"
    /\ UNCHANGED <<selection, cmdOutcome>>
    /\ UNCHANGED <<env, execVars, revertVars, diffVars, loopVars, classifyVars, commitVars>>

\* the promise of fn for a group once repository.resolve has settled: the
\* fn of svn.resolve awaits it without a try/catch and returns nothing
ResolveFnSettled(result) ==
    IF result.state = "rejected" THEN RejectedOp(result.value)
    ELSE FulfilledOp(None)

\* repository.resolve of group g settles
RepositoryResolveSettles(g, result) ==
    /\ cmd = "dispatched"
    /\ g \in 1..Len(promises)
    /\ promises[g].state = "pending"
    /\ promises' = [promises EXCEPT ![g] = ResolveFnSettled(result)]
    /\ allPromise' = PromiseAll(allPromise, promises')
    /\ UNCHANGED <<cmd, selection, choice, uris, groups, repoCalls, console,
                   cmdOutcome>>
    /\ UNCHANGED <<env, execVars, revertVars, diffVars, loopVars, classifyVars, commitVars>>

\* await this.runByRepository(...) returns or throws; the catch of
\* createCommand logs a rejection with console.error
ResolveReturns ==
    /\ cmd = "dispatched"
    /\ allPromise.state # "pending"
    /\ cmd' = "done"
    /\ cmdOutcome' = FulfilledOp(None)
    /\ console' = IF allPromise.state = "rejected"
                  THEN Append(console, [level |-> "error",
                                        text |-> allPromise.value[1]])
                  ELSE console
    /\ UNCHANGED <<selection, choice, uris, groups, promises, allPromise,
                   repoCalls>>
    /\ UNCHANGED <<env, execVars, revertVars, diffVars, loopVars, classifyVars, commitVars>>

-----------------------------------------------------------------------------
(* Resource states and the svn.commitWithMessage command *)

NoUri == <<>>               \* an absent renameResourceUri

\* a Resource of the source control view
Resource(resourceUri, type, renameResourceUri) ==
    [class |-> "Resource", resourceUri |-> resourceUri, type |-> type,
     renameResourceUri |-> renameResourceUri]

\* a resource state that is not an instance of Resource
OtherState(resourceUri) ==
    [class |-> "SourceControlResourceState", resourceUri |-> resourceUri,
     type |-> None, renameResourceUri |-> NoUri]

\* Uri.fsPath: the path of a file uri, segment by segment
fsPath(uri) == uri

\* state instanceof Resource && state.type === Status.ADDED
\*   && state.renameResourceUri
IsRenamed(state) ==
    /\ state.class = "Resource"
    /\ state.type = "added"
    /\ state.renameResourceUri # NoUri

\* no previous path is passed along
RenameSourcesNone(states) == SubSeq(states, 1, 0)

\* the renameResourceUri of every renamed state, in the order of the states
RenameSources(states) ==
    LET renamed == SelectSeq(states, IsRenamed)
    IN  [i \in 1..Len(renamed) |-> renamed[i].renameResourceUri]

\* filePaths of commitWithMessage: the path of every state, followed by the
\* previous path of every renamed state
CommitFilePaths(states) ==
    [i \in 1..Len(states) |-> fsPath(states[i].resourceUri)]
    \o [i \in 1..Len(RenameSources(states)) |-> fsPath(RenameSources(states)[i])]

\* window.show...: one entry of the window's log
Shown(kind, text) == [kind |-> kind, text |-> text]

\* repository.commitFiles(message, files)
CommitFilesCall(repo, msg, files) ==
    [repository |-> repo, method |-> "commitFiles", files |-> files,
     message |-> msg]

\* the user edits the message in the input box of the source control view
InputBoxType(text) ==
    /\ cmd = "idle"
    /\ inputBox # text
    /\ inputBox' = text
    /\ UNCHANGED <<cmd, selection, choice, uris, groups, promises, allPromise,
                   repoCalls, console, cmdOutcome, ui, cmdRepository,
                   cmdMessage, fnPc>>
    /\ UNCHANGED <<env, execVars, revertVars, diffVars, loopVars, classifyVars>>

\* a start that asks for the changelist whatever the pending message is
CommitWithMessageStartUnguarded(repo) ==
    /\ cmd = "idle"
    /\ cmdRepository' = repo
    /\ cmdMessage' = inputBox
    /\ cmd' = "changelist"
    /\ cmdOutcome' = PendingOp
    /\ ui' = Append(ui, Shown("inputCommitChangelist", None))
    /\ UNCHANGED <<selection, choice, uris, groups, promises, allPromise,
                   repoCalls, console, inputBox, fnPc>>
    /\ UNCHANGED <<env, execVars, revertVars, diffVars, loopVars, classifyVars>>

\* svn.commitWithMessage up to the changelist prompt
CommitWithMessageStart(repo) ==
    /\ cmd = "idle"
    /\ cmdRepository' = repo
    /\ cmdMessage' = inputBox
    /\ IF cmdMessage' = ""
       THEN /\ cmd' = "done"
            /\ cmdOutcome' = FulfilledOp(None)
            /\ ui' = ui
       ELSE /\ cmd' = "changelist"
            /\ cmdOutcome' = PendingOp
            /\ ui' = Append(ui, Shown("inputCommitChangelist", None))
    /\ UNCHANGED <<selection, choice, uris, groups, promises, allPromise,
                   repoCalls, console, inputBox, fnPc>>
    /\ UNCHANGED <<env, execVars, revertVars, diffVars, loopVars, classifyVars>>

\* inputCommitChangelist returned undefined
ChangelistDismissed ==
    /\ cmd = "changelist"
    /\ cmd' = "done"
    /\ cmdOutcome' = FulfilledOp(None)
    /\ UNCHANGED <<selection, choice, uris, groups, promises, allPromise,
                   repoCalls, console>>
    /\ UNCHANGED <<env, execVars, revertVars, diffVars, loopVars, classifyVars, commitVars>>

\* a changelist was chosen: the file paths are collected and
\* repository.commitFiles is called
ChangelistPicked(resourceStates) ==
    /\ cmd = "changelist"
    /\ selection' = resourceStates
    /\ choice' = "resourceGroup"
    /\ repoCalls' = Append(repoCalls,
                           CommitFilesCall(cmdRepository, cmdMessage,
                                           CommitFilePaths(resourceStates)))
    /\ promises' = <<PendingOp>>
    /\ cmd' = "committing"
    /\ UNCHANGED <<uris, groups, allPromise, console, cmdOutcome>>
    /\ UNCHANGED <<env, execVars, revertVars, diffVars, loopVars, classifyVars, commitVars>>

\* a settlement that clears the pending message on failure too
CommitFilesSettlesAlwaysClears(result) ==
    /\ cmd = "committing"
    /\ promises' = <<result>>
    /\ IF result.state = "fulfilled"
       THEN /\ ui' = Append(ui, Shown("showInformationMessage", result.value))
            /\ console' = console
       ELSE /\ console' = Append(console, [level |-> "error",
                                           text |-> result.value])
            /\ ui' = Append(ui, Shown("showErrorMessage", result.value))
    /\ inputBox' = ""
    /\ cmd' = "done"
    /\ cmdOutcome' = FulfilledOp(None)
    /\ UNCHANGED <<selection, choice, uris, groups, allPromise, repoCalls,
                   cmdRepository, cmdMessage, fnPc>>
    /\ UNCHANGED <<env, execVars, revertVars, diffVars, loopVars, classifyVars>>

\* repository.commitFiles settles: the try block goes on, or the catch runs
CommitFilesSettles(result) ==
    /\ cmd = "committing"
    /\ promises' = <<result>>
    /\ IF result.state = "fulfilled"
       THEN /\ ui' = Append(ui, Shown("showInformationMessage", result.value))
            /\ inputBox' = ""
            /\ console' = console
       ELSE /\ console' = Append(console, [level |-> "error",
                                           text |-> result.value])
            /\ ui' = Append(ui, Shown("showErrorMessage", result.value))
            /\ inputBox' = inputBox
    /\ cmd' = "done"
    /\ cmdOutcome' = FulfilledOp(None)
    /\ UNCHANGED <<selection, choice, uris, groups, allPromise, repoCalls,
                   cmdRepository, cmdMessage, fnPc>>
    /\ UNCHANGED <<env, execVars, revertVars, diffVars, loopVars, classifyVars>>

-----------------------------------------------------------------------------
(* The svn.commit command *)

\* getSCMResource() without argument: the resource of the active editor,
\* when there is one and a repository owns it
getSCMResource(roots, active) ==
    IF active # <<>> /\ getRepository(roots, active[1].resourceUri) # NoRepository
    THEN active ELSE <<>>

\* uris of svn.commit: the uri of every selected Resource, followed by the
\* previous uri of every renamed one
CommitUris(states) ==
    [i \in 1..Len(states) |-> states[i].resourceUri] \o RenameSources(states)

\* paths = resources.map(resource => resource.fsPath)
FsPaths(resources) == [i \in 1..Len(resources) |-> fsPath(resources[i])]

\* svn.commit up to the await of runByRepository: the selection is
\* filtered, the uris are grouped, and the fn of every group runs up to its
\* await of inputCommitMessage()
CommitStart(resources, active) ==
    /\ cmd = "idle"
    /\ LET given == IF resources = <<>>
                    THEN getSCMResource(env.roots, active) ELSE resources
       IN  IF given = <<>>
           THEN /\ cmd' = "done"
                /\ cmdOutcome' = FulfilledOp(None)
                /\ UNCHANGED <<selection, uris, groups, console, promises,
                               allPromise, fnPc, ui>>
           ELSE /\ selection' = SelectSeq(given,
                                          LAMBDA s : s.class = "Resource")
                /\ uris' = CommitUris(selection')
                /\ groups' = Groups(env.roots, uris')
                /\ console' = console \o Warnings(env.roots, uris')
                /\ promises' = [g \in 1..Len(groups') |-> PendingOp]
                /\ fnPc' = [g \in 1..Len(groups') |-> "prompt"]
                /\ ui' = ui \o [g \in 1..Len(groups') |->
                                   Shown("inputCommitMessage", None)]
                /\ allPromise' = PromiseAll(PendingAll, promises')
                /\ cmd' = "dispatched"
                /\ cmdOutcome' = PendingOp
    /\ UNCHANGED <<choice, repoCalls, inputBox, cmdRepository, cmdMessage>>
    /\ UNCHANGED <<env, execVars, revertVars, diffVars, loopVars, classifyVars>>

\* inputCommitMessage() of group g returned undefined: fn returns
CommitMessageDismissed(g) ==
    /\ cmd = "dispatched"
    /\ g \in 1..Len(fnPc)
    /\ fnPc[g] = "prompt"
    /\ fnPc' = [fnPc EXCEPT ![g] = "dismissed"]
    /\ promises' = [promises EXCEPT ![g] = FulfilledOp(None)]
    /\ allPromise' = PromiseAll(allPromise, promises')
    /\ UNCHANGED <<cmd, selection, choice, uris, groups, repoCalls, console,
                   cmdOutcome, inputBox, ui, cmdRepository, cmdMessage>>
    /\ UNCHANGED <<env, execVars, revertVars, diffVars, loopVars, classifyVars>>

\* inputCommitMessage() of group g returned the text: fn calls
\* repository.commitFiles(message, paths)
CommitMessageEntered(g, text) ==
    /\ cmd = "dispatched"
    /\ g \in 1..Len(fnPc)
    /\ fnPc[g] = "prompt"
    /\ fnPc' = [fnPc EXCEPT ![g] = "await"]
    /\ repoCalls' = Append(repoCalls,
                           CommitFilesCall(groups[g].repository, text,
                                           FsPaths(groups[g].resources)))
    /\ UNCHANGED <<cmd, selection, choice, uris, groups, promises, allPromise,
                   console, cmdOutcome, inputBox, ui, cmdRepository,
                   cmdMessage>>
    /\ UNCHANGED <<env, execVars, revertVars, diffVars, loopVars, classifyVars>>

\* repository.commitFiles of group g settles: fn shows the result, or its
\* catch logs the error and shows "Unable to commit"; fn returns
GroupCommitSettles(g, result) ==
    /\ cmd = "dispatched"
    /\ g \in 1..Len(fnPc)
    /\ fnPc[g] = "await"
    /\ fnPc' = [fnPc EXCEPT ![g] = "returned"]
    /\ IF result.state = "fulfilled"
       THEN /\ ui' = Append(ui, Shown("showInformationMessage", result.value))
            /\ console' = console
       ELSE /\ console' = Append(console, [level |-> "error",
                                           text |-> result.value])
            /\ ui' = Append(ui, Shown("showErrorMessage", "Unable to commit"))
    /\ promises' = [promises EXCEPT ![g] = FulfilledOp(None)]
    /\ allPromise' = PromiseAll(allPromise, promises')
    /\ UNCHANGED <<cmd, selection, choice, uris, groups, repoCalls, cmdOutcome,
                   inputBox, cmdRepository, cmdMessage>>
    /\ UNCHANGED <<env, execVars, revertVars, diffVars, loopVars, classifyVars>>

\* await this.runByRepository(...) returns
CommitReturns ==
    /\ cmd = "dispatched"
    /\ allPromise.state = "fulfilled"
    /\ cmd' = "done"
    /\ cmdOutcome' = FulfilledOp(None)
    /\ UNCHANGED <<selection, choice, uris, groups, promises, allPromise,
                   repoCalls, console>>
    /\ UNCHANGED <<env, execVars, revertVars, diffVars, loopVars, classifyVars, commitVars>>

-----------------------------------------------------------------------------
(* The svn.resolveAll command *)

\* window.showQuickPick(picks, { placeHolder }) for the conflict
ConflictPrompt(conflict) == Shown("showQuickPick", conflict)

\* repository.resolve([conflict.resourceUri.path], choice.label)
ResolveOneCall(repo, conflict, label) ==
    [repository |-> repo, method |-> "resolve", files |-> <<conflict>>,
     action |-> label]

\* svn.resolveAll up to the first quick pick
ResolveAllStart(repo, conflicts) ==
    /\ cmd = "idle"
    /\ cmdRepository' = repo
    /\ selection' = conflicts
    /\ IF conflicts = <<>>
       THEN /\ ui' = Append(ui, Shown("showInformationMessage", "No Conflicts"))
            /\ cmd' = "done"
            /\ cmdOutcome' = FulfilledOp(None)
            /\ conflictAt' = conflictAt
       ELSE /\ conflictAt' = 1
            /\ ui' = Append(ui, ConflictPrompt(conflicts[1]))
            /\ cmd' = "conflictPick"
            /\ cmdOutcome' = PendingOp
    /\ UNCHANGED <<choice, uris, groups, promises, allPromise, repoCalls,
                   console, inputBox, cmdMessage, fnPc, autoResolve>>
    /\ UNCHANGED <<env, execVars, revertVars, diffVars, classifyVars>>

\* the quick pick of the current conflict was dismissed: the command returns
ConflictPickDismissed ==
    /\ cmd = "conflictPick"
    /\ cmd' = "done"
    /\ cmdOutcome' = FulfilledOp(None)
    /\ UNCHANGED <<selection, choice, uris, groups, promises, allPromise,
                   repoCalls, console>>
    /\ UNCHANGED <<env, execVars, revertVars, diffVars, classifyVars, commitVars, loopVars>>

\* an option was picked for the current conflict: repository.resolve is
\* called with the path of this conflict
ConflictPicked(label) ==
    /\ cmd = "conflictPick"
    /\ choice' = label
    /\ repoCalls' = Append(repoCalls,
                           ResolveOneCall(cmdRepository, selection[conflictAt],
                                          label))
    /\ promises' = Append(promises, PendingOp)
    /\ cmd' = "resolving"
    /\ UNCHANGED <<selection, uris, groups, allPromise, console, cmdOutcome>>
    /\ UNCHANGED <<env, execVars, revertVars, diffVars, classifyVars, commitVars, loopVars>>

\* a settlement that leaves the loop when repository.resolve has failed
ConflictResolveSettlesStopsOnError(result) ==
    /\ cmd = "resolving"
    /\ promises' = [promises EXCEPT ![Len(promises)] = result]
    /\ LET shown == IF result.state = "fulfilled"
                    THEN Shown("showInformationMessage", result.value)
                    ELSE Shown("showErrorMessage", result.value)
       IN  IF conflictAt < Len(selection) /\ result.state = "fulfilled"
           THEN /\ conflictAt' = conflictAt + 1
                /\ ui' = ui \o <<shown, ConflictPrompt(selection[conflictAt'])>>
                /\ cmd' = "conflictPick"
                /\ cmdOutcome' = cmdOutcome
           ELSE /\ conflictAt' = conflictAt
                /\ ui' = Append(ui, shown)
                /\ cmd' = "done"
                /\ cmdOutcome' = FulfilledOp(None)
    /\ UNCHANGED <<selection, choice, uris, groups, allPromise, repoCalls,
                   console, inputBox, cmdRepository, cmdMessage, fnPc,
                   autoResolve>>
    /\ UNCHANGED <<env, execVars, revertVars, diffVars, classifyVars>>

\* repository.resolve settles: the response or the error's stderr is
\* shown, and the loop goes on to the next conflict or ends
ConflictResolveSettles(result) ==
    /\ cmd = "resolving"
    /\ promises' = [promises EXCEPT ![Len(promises)] = result]
    /\ LET shown == IF result.state = "fulfilled"
                    THEN Shown("showInformationMessage", result.value)
                    ELSE Shown("showErrorMessage", result.value)
       IN  IF conflictAt < Len(selection)
           THEN /\ conflictAt' = conflictAt + 1
                /\ ui' = ui \o <<shown, ConflictPrompt(selection[conflictAt'])>>
                /\ cmd' = "conflictPick"
                /\ cmdOutcome' = cmdOutcome
           ELSE /\ conflictAt' = conflictAt
                /\ ui' = Append(ui, shown)
                /\ cmd' = "done"
                /\ cmdOutcome' = FulfilledOp(None)
    /\ UNCHANGED <<selection, choice, uris, groups, allPromise, repoCalls,
                   console, inputBox, cmdRepository, cmdMessage, fnPc,
                   autoResolve>>
    /\ UNCHANGED <<env, execVars, revertVars, diffVars, classifyVars>>

-----------------------------------------------------------------------------
(* The svn.resolved command *)

\* window.showWarningMessage(`Mark the conflict as resolved for ...`,
\* "Yes", "No")
ResolvedPrompt(uri) == Shown("showWarningMessage", LastSegment(fsPath(uri)))

\* runByRepository([uri], fn) up to its await: the fn of svn.resolved calls
\* repository.resolve(files, "working") on the group of the uri
ResolvedRun(given) ==
    /\ uris' = given
    /\ groups' = Groups(env.roots, uris')
    /\ console' = console \o Warnings(env.roots, uris')
    /\ repoCalls' = repoCalls
                    \o [g \in 1..Len(groups') |->
                           ResolveFnCall(groups'[g], "working")]
    /\ promises' = [g \in 1..Len(groups') |-> PendingOp]
    /\ allPromise' = PromiseAll(PendingAll, promises')
    /\ cmd' = "dispatched"

\* a confirmation that goes on with any answer but a dismissal
ResolvedAnsweredUnlessDismissed(pick) ==
    /\ cmd = "confirming"
    /\ choice' = pick
    /\ IF pick # None
       THEN ResolvedRun(selection) /\ cmdOutcome' = cmdOutcome
       ELSE /\ cmd' = "done"
            /\ cmdOutcome' = FulfilledOp(None)
            /\ UNCHANGED <<uris, groups, console, repoCalls, promises,
                           allPromise>>
    /\ UNCHANGED selection
    /\ UNCHANGED <<env, execVars, revertVars, diffVars, classifyVars, commitVars, loopVars>>

\* svn.resolved up to the confirmation, or up to the await of
\* runByRepository when conflict.autoResolve is set
ResolvedStart(uri, auto) ==
    /\ cmd = "idle"
    /\ IF uri = NoUri
       THEN /\ cmd' = "done"
            /\ cmdOutcome' = FulfilledOp(None)
            /\ UNCHANGED <<selection, autoResolve, ui, uris, groups, console,
                           repoCalls, promises, allPromise>>
       ELSE /\ selection' = <<uri>>
            /\ autoResolve' = auto
            /\ cmdOutcome' = PendingOp
            /\ IF auto
               THEN ResolvedRun(selection') /\ ui' = ui
               ELSE /\ ui' = Append(ui, ResolvedPrompt(uri))
                    /\ cmd' = "confirming"
                    /\ UNCHANGED <<uris, groups, console, repoCalls, promises,
                                   allPromise>>
    /\ UNCHANGED <<choice, inputBox, cmdRepository, cmdMessage, fnPc,
                   conflictAt>>
    /\ UNCHANGED <<env, execVars, revertVars, diffVars, classifyVars>>

\* the confirmation was answered or dismissed
ResolvedAnswered(pick) ==
    /\ cmd = "confirming"
    /\ choice' = pick
    /\ IF pick = "Yes"
       THEN ResolvedRun(selection) /\ cmdOutcome' = cmdOutcome
       ELSE /\ cmd' = "done"
            /\ cmdOutcome' = FulfilledOp(None)
            /\ UNCHANGED <<uris, groups, console, repoCalls, promises,
                           allPromise>>
    /\ UNCHANGED selection
    /\ UNCHANGED <<env, execVars, revertVars, diffVars, classifyVars, commitVars, loopVars>>

-----------------------------------------------------------------------------
(* The diff endpoints: getLeftResource, getRightResource, getTitle and
   _openResource *)

NoResource == <<>>          \* no endpoint (undefined)

\* toSvnUri(uri, SvnUriAction.SHOW, { ref }): a reference to the content of
\* the file at the revision
SvnShowUri(uri, ref) ==
    [scheme |-> "svn", fsPath |-> fsPath(uri), action |-> "SHOW",
     ref |-> ref]

\* a file uri, as an endpoint
WorkingFile(uri) == [scheme |-> "file", fsPath |-> fsPath(uri)]

\* path.dirname
Dirname(path) == IF path = <<>> THEN <<>> ELSE SubSeq(path, 1, Len(path) - 1)

\* the length of the longest common prefix of two paths
RECURSIVE CommonLen(_, _)
CommonLen(p, q) ==
    IF p = <<>> \/ q = <<>> \/ Head(p) # Head(q) THEN 0
    ELSE 1 + CommonLen(Tail(p), Tail(q))

\* path.relative(from, to)
Relative(from, to) ==
    LET n == CommonLen(from, to)
    IN  [i \in 1..(Len(from) - n) |-> ".."] \o SubSeq(to, n + 1, Len(to))

\* a left endpoint that is the historical reference for removed files too
getLeftResourceWithRemoved(resource, against) ==
    IF resource.type = "added" /\ resource.renameResourceUri # NoUri
    THEN SvnShowUri(resource.renameResourceUri, against)
    ELSE IF resource.type \in {"conflicted", "modified", "replaced",
                               "deleted", "missing"}
         THEN SvnShowUri(resource.resourceUri, against)
         ELSE NoResource

\* a left endpoint that ignores the rename source
getLeftResourceNoRename(resource, against) ==
    IF resource.type \in {"conflicted", "modified", "replaced"}
    THEN SvnShowUri(resource.resourceUri, against)
    ELSE NoResource

getLeftResource(resource, against) ==
    IF resource.type = "added" /\ resource.renameResourceUri # NoUri
    THEN SvnShowUri(resource.renameResourceUri, against)
    ELSE IF resource.type \in {"conflicted", "modified", "replaced"}
         THEN SvnShowUri(resource.resourceUri, against)
         ELSE NoResource

getRightResource(resource, against) ==
    IF resource.type \in {"added", "conflicted", "ignored", "modified",
                          "unversioned", "replaced"}
    THEN WorkingFile(resource.resourceUri)
    ELSE IF resource.type \in {"deleted", "missing"}
         THEN SvnShowUri(resource.resourceUri, against)
         ELSE NoResource

\* the title, as the sequence of its parts; "" is the empty sequence
getTitle(resource, against) ==
    IF resource.type = "added" /\ resource.renameResourceUri # NoUri
    THEN LET basename == LastSegment(fsPath(resource.renameResourceUri))
             newname == Relative(Dirname(fsPath(resource.renameResourceUri)),
                                 fsPath(resource.resourceUri))
         IN  IF against # ""
             THEN <<basename, " -> ", newname, " (", against, ")">>
             ELSE <<basename, " -> ", newname>>
    ELSE IF against # ""
         THEN <<LastSegment(fsPath(resource.resourceUri)), " (", against, ")">>
         ELSE <<>>

\* no call of _openResource
NoOpened ==
    [resource |-> NoResource, against |-> "", stat |-> "file",
     left |-> NoResource, right |-> NoResource, title |-> <<>>,
     shown |-> None]

\* _openResource(resource, against): the endpoints and the title are
\* computed; without a right endpoint an error is logged; fs.statSync of
\* the right endpoint's path throws when nothing is there; a directory is
\* not opened; without a left endpoint the right one is opened as a
\* document, and otherwise the diff of the pair is opened
OpenResource ==
    /\ opened.shown = None
    /\ LET left == getLeftResource(opened.resource, opened.against)
           right == getRightResource(opened.resource, opened.against)
           title == getTitle(opened.resource, opened.against)
       IN  /\ opened' = [opened EXCEPT
                            !.left = left, !.right = right, !.title = title,
                            !.shown = IF right = NoResource THEN "nothing"
                                      ELSE IF opened.stat = "missing"
                                           THEN "throws"
                                      ELSE IF opened.stat = "directory"
                                           THEN "nothing"
                                      ELSE IF left = NoResource
                                           THEN "showTextDocument"
                                           ELSE "vscode.diff"]
           /\ console' = IF right = NoResource
                         THEN Append(console, [level |-> "error",
                                               text |-> "oh no"])
                         ELSE console

-----------------------------------------------------------------------------
(* revertChanges *)

\* a document of the editor: the scheme of its uri, its text, its dirty flag
Document(scheme, content, isDirty) ==
    [scheme |-> scheme, content |-> content, isDirty |-> isDirty]

NoDocument == Document(None, <<>>, FALSE)

\* a text: what is compared is only whether two texts are the same
Text(name) == <<name>>

\* no text: the document could not be opened
NoText == <<>>

\* applyLineChanges(original, modified, changes): the text of the modified
\* document with the given changes taken back to the original
applyLineChanges(originalDocument, modifiedDocument, changes) ==
    <<"applyLineChanges", originalDocument, modifiedDocument, changes>>

NoEdit == [state |-> "none", text |-> <<>>]

Yes == "Revert Changes"

InitRevert ==
    /\ revPc = "idle"
    /\ document = NoDocument
    /\ disk = <<>>
    /\ original = <<>>
    /\ revChanges = None
    /\ revPick = None
    /\ edit = NoEdit
    /\ saves = <<>>

revertUnchanged ==
    <<env, execVars, cmd, selection, choice, uris, groups, promises, allPromise,
      repoCalls, console, cmdOutcome, classifyVars, commitVars, loopVars,
      diffVars>>

\* revertChanges(textEditor, changes) up to the first await: a document that
\* is not a file is left alone
RevertChangesStart(doc, onDisk, changes) ==
    /\ revPc = "idle"
    /\ document' = doc
    /\ disk' = IF doc.isDirty THEN onDisk ELSE doc.content
    /\ revChanges' = changes
    /\ revPc' = IF doc.scheme # "file" THEN "returned" ELSE "opening"
    /\ UNCHANGED <<original, revPick, edit, saves>>
    /\ UNCHANGED revertUnchanged

\* workspace.openTextDocument(originalUri) settles: the BASE text, or a
\* rejection that revertChanges lets through
OpenTextDocumentSettles(result) ==
    /\ revPc = "opening"
    /\ IF result = NoText
       THEN revPc' = "thrown" /\ UNCHANGED original
       ELSE revPc' = "asking" /\ original' = result
    /\ UNCHANGED <<document, disk, revChanges, revPick, edit, saves>>
    /\ UNCHANGED revertUnchanged

\* the modal warning is answered; on "Revert Changes" the edit is handed to
\* workspace.applyEdit, whose promise is dropped, and save() is called in
\* the same run
ShowWarningAnswered(answer) ==
    /\ revPc = "asking"
    /\ revPick' = answer
    /\ IF answer # Yes
       THEN revPc' = "returned" /\ UNCHANGED edit
       ELSE /\ edit' = [state |-> "pending",
                        text |-> applyLineChanges(original, document.content,
                                                  revChanges)]
            /\ revPc' = "saving"
    /\ UNCHANGED <<document, disk, original, revChanges, saves>>
    /\ UNCHANGED revertUnchanged

\* the editor applies the edit: the text of the document is replaced
EditApplied ==
    /\ edit.state = "pending"
    /\ edit' = [edit EXCEPT !.state = "applied"]
    /\ document' = [document EXCEPT !.content = edit.text, !.isDirty = TRUE]
    /\ UNCHANGED <<revPc, disk, original, revChanges, revPick, saves>>
    /\ UNCHANGED revertUnchanged

\* the editor refuses the edit: applyEdit resolves to false
EditRefused ==
    /\ edit.state = "pending"
    /\ edit' = [edit EXCEPT !.state = "refused"]
    /\ UNCHANGED <<revPc, document, disk, original, revChanges, revPick, saves>>
    /\ UNCHANGED revertUnchanged

\* modifiedDocument.save() settles: the text the document holds at that
\* moment is written, or nothing is (save resolves to false)
DocumentSaved(ok) ==
    /\ revPc = "saving"
    /\ IF ok
       THEN /\ disk' = document.content
            /\ document' = [document EXCEPT !.isDirty = FALSE]
            /\ saves' = Append(saves, document.content)
       ELSE UNCHANGED <<document, disk, saves>>
    /\ revPc' = "returned"
    /\ UNCHANGED <<original, revChanges, revPick, edit>>
    /\ UNCHANGED revertUnchanged

-----------------------------------------------------------------------------
(* Specifications *)

vars == <<env, classified, opened, revertVars, uris, inputBox, ui, cmdRepository, cmdMessage,
          fnPc, conflictAt, autoResolve, pc, calls, lastCwd, args, options, encoding, output, listeners,
          disposables, procState, stdoutOpen, stderrOpen, exitPromise,
          stdoutPromise, stderrPromise, stdoutBuffers, stderrBuffers,
          stdoutSeen, stderrSeen, ratioBumps, read, procError, outcome,
          cmd, selection, choice, groups, promises, allPromise, repoCalls,
          console, cmdOutcome>>

InitExec ==
    /\ pc = "idle"
    /\ calls = 0
    /\ lastCwd = <<>>
    /\ args = <<>>
    /\ options = Options(TRUE, "", "", NoEncoding)
    /\ encoding = "utf8"
    /\ output = <<>>
    /\ listeners = {}
    /\ disposables = <<>>
    /\ procState = "none"
    /\ stdoutOpen = FALSE
    /\ stderrOpen = FALSE
    /\ exitPromise = Pending
    /\ stdoutPromise = Pending
    /\ stderrPromise = Pending
    /\ stdoutBuffers = <<>>
    /\ stderrBuffers = <<>>
    /\ stdoutSeen = <<>>
    /\ stderrSeen = <<>>
    /\ ratioBumps = 0
    /\ read = NoRead
    /\ procError = NoError
    /\ outcome = NoOutcome

InitCommit ==
    /\ inputBox = ""
    /\ ui = <<>>
    /\ cmdRepository = NoRepository
    /\ cmdMessage = None
    /\ fnPc = <<>>
    /\ conflictAt = 0
    /\ autoResolve = FALSE

InitCmd ==
    /\ cmd = "idle"
    /\ selection = <<>>
    /\ choice = None
    /\ uris = <<>>
    /\ groups = <<>>
    /\ promises = <<>>
    /\ allPromise = PendingAll
    /\ repoCalls = <<>>
    /\ console = <<>>
    /\ cmdOutcome = PendingOp
    /\ classified = NoClassified
    /\ opened = NoOpened
    /\ InitRevert
    /\ InitCommit

Init == env = EnvExec /\ InitExec /\ InitCmd

NextExec ==
    \/ \E cwd \in env.cwds, argv \in env.argvs, opts \in env.options :
          ExecCall(cwd, argv, opts)
    \/ \E err \in env.errors : ProcessError(err)
    \/ \E code \in env.exitCodes : ProcessExit(code)
    \/ \E b \in env.stdoutChunks : StdoutData(b)
    \/ StdoutClose
    \/ \E b \in env.stderrChunks : StderrData(b)
    \/ StderrClose
    \/ ExecThrow
    \/ \E cfg \in env.configs, guess \in env.guesses : ExecContinue(cfg, guess)

Next == NextExec

Spec == Init /\ [][Next]_vars

\* two working copies, one nested working copy, and an unmanaged folder
EnvDispatch ==
    [roots |-> {<<"a">>, <<"b">>, <<"a", "ext">>},
     uris  |-> {<<"a", "f1">>, <<"b", "f2">>, <<"a", "ext", "f3">>,
                <<"tmp", "f4">>},
     results |-> {FulfilledOp("Resolved conflicted state"),
                  RejectedOp("svn: E155004: locked")}]

InitDispatch == env = EnvDispatch /\ InitExec /\ InitCmd

NextDispatch ==
    \/ \E rs \in SeqsUpTo(env.uris, MaxSelection),
          active \in {<<>>} \cup {<<u>> : u \in env.uris} :
          ResolveStart(rs, active)
    \/ ResolveDismissed
    \/ \E label \in ConflictPicks : ResolvePicked(label)
    \/ \E g \in 1..MaxSelection, result \in env.results :
          RepositoryResolveSettles(g, result)
    \/ ResolveReturns

SpecDispatch == InitDispatch /\ [][NextDispatch]_vars

InitEncoding == env = EnvEncoding /\ InitExec /\ InitCmd

\* the diagnostic output: calls with and without log, with and without
\* credentials and cwd, a valid and an invalid default.encoding
EnvLog ==
    [cwds      |-> {<<"home", "wc">>, <<>>},
     argvs     |-> {<<"update">>, <<"info", "--xml">>},
     options   |-> {Options(TRUE, "", "", NoEncoding),
                    Options(FALSE, "", "", NoEncoding),
                    Options(FALSE, "joe", "secret", NoEncoding)},
     stdoutChunks |-> {<<65>>},
     stderrChunks |-> {AuthLine},
     exitCodes |-> {<<0>>, <<1>>, <<>>},
     errors    |-> {Err("spawn svn ENOENT")},
     configs   |-> {NoEncoding, "x-invalid"},
     guesses   |-> {Guess(NoEncoding, 0)}]

InitLog == env = EnvLog /\ InitExec /\ InitCmd

\* calls in a row and in flight together: own and empty cwds, options with
\* and without credentials, one with a cwd of its own
EnvEcho ==
    [cwds      |-> {<<"home", "wc">>, <<"srv", "lib">>, <<>>},
     argvs     |-> {<<"update">>, <<"commit", "-m", "fix the bug">>},
     options   |-> {Options(TRUE, "", "", NoEncoding),
                    Options(TRUE, "joe", "secret", NoEncoding),
                    [Options(TRUE, "", "", NoEncoding)
                        EXCEPT !.cwd = <<"opt", "dir">>]},
     stdoutChunks |-> {<<65>>},
     stderrChunks |-> {AuthLine},
     exitCodes |-> {<<0>>},
     errors    |-> {Err("spawn svn ENOENT")},
     configs   |-> {NoEncoding},
     guesses   |-> {Guess(NoEncoding, 0)}]

InitEcho == env = EnvEcho /\ InitExec /\ InitCmd

NextEcho ==
    \/ \E cwd \in env.cwds, argv \in env.argvs, opts \in env.options :
          ExecCall(cwd, argv, opts)
    \/ \E cwd \in env.cwds, argv \in env.argvs, opts \in env.options :
          ExecCallNext(cwd, argv, opts)
    \/ \E cwd \in env.cwds, opts \in env.options :
          ExecCallSameArray(cwd, opts)
    \/ \E code \in env.exitCodes : ProcessExit(code)
    \/ StdoutClose
    \/ StderrClose
    \/ \E cfg \in env.configs, guess \in env.guesses : ExecContinue(cfg, guess)

SpecEcho == InitEcho /\ [][NextEcho]_vars

\* one plain call: the process may exit, fail to launch, or hang
EnvLive ==
    [cwds      |-> {<<"home", "wc">>},
     argvs     |-> {<<"update">>},
     options   |-> {Options(TRUE, "", "", NoEncoding)},
     stdoutChunks |-> {<<65>>},
     stderrChunks |-> {AuthLine},
     exitCodes |-> {<<0>>, <<1>>},
     errors    |-> {Err("spawn svn ENOENT")},
     configs   |-> {NoEncoding},
     guesses   |-> {Guess(NoEncoding, 0)}]

InitLive == env = EnvLive /\ InitExec /\ InitCmd

\* the continuation of the await is a queued job of the event loop: once
\* Promise.all has settled it runs; the events of the process are under no
\* such obligation
SpecLive ==
    /\ InitLive
    /\ [][Next]_vars
    /\ WF_vars(ExecThrow)
    /\ WF_vars(\E cfg \in env.configs, guess \in env.guesses :
                   ExecContinue(cfg, guess))

SpecLog == InitLog /\ [][Next]_vars

SpecEncoding == InitEncoding /\ [][Next]_vars

\* stderr texts: the tool prefix, the five codes of the table, a code that
\* is not in the table, and the credential-exhaustion phrase
EnvClassify ==
    [lexemes |-> {"svn: ", CredentialsPhrase} \cup ELexemes]

InitClassify ==
    /\ env = EnvClassify
    /\ InitExec
    /\ cmd = "idle"
    /\ selection = <<>>
    /\ choice = None
    /\ uris = <<>>
    /\ groups = <<>>
    /\ promises = <<>>
    /\ allPromise = PendingAll
    /\ repoCalls = <<>>
    /\ console = <<>>
    /\ cmdOutcome = PendingOp
    /\ opened = NoOpened
    /\ InitRevert
    /\ InitCommit
    /\ \E text \in SeqsUpTo(env.lexemes, MaxText) :
           classified = [NoClassified EXCEPT !.stderr = text]

NextClassify == Classify /\ UNCHANGED <<env, execVars, cmd, selection, choice,
                                         uris, groups, promises, allPromise,
                                         repoCalls, console, cmdOutcome,
                                         commitVars, loopVars, diffVars,
                                         revertVars>>

SpecClassify == InitClassify /\ [][NextClassify]_vars

\* one working copy with a changed file, a renamed file, an added file and
\* a resource state of another kind
EnvCommitWithMessage ==
    [roots |-> {<<"a">>},
     messages |-> {"", "fix typo"},
     states |-> {Resource(<<"a", "f1">>, "modified", NoUri),
                 Resource(<<"a", "new">>, "added", <<"a", "old">>),
                 Resource(<<"a", "f5">>, "added", NoUri),
                 OtherState(<<"a", "f6">>)},
     results |-> {FulfilledOp("Committed revision 5."),
                  RejectedOp("svn: E155004: locked")}]

InitCommitWithMessage == env = EnvCommitWithMessage /\ InitExec /\ InitCmd

NextCommitWithMessage ==
    \/ \E text \in env.messages : InputBoxType(text)
    \/ \E repo \in env.roots : CommitWithMessageStart(repo)
    \/ ChangelistDismissed
    \/ \E rs \in SeqsUpTo(env.states, MaxSelection) : ChangelistPicked(rs)
    \/ \E result \in env.results : CommitFilesSettles(result)

SpecCommitWithMessage == InitCommitWithMessage /\ [][NextCommitWithMessage]_vars

\* two working copies, each with a renamed file; a changed file; a resource
\* state of another kind
EnvCommit ==
    [roots |-> {<<"a">>, <<"b">>},
     messages |-> {"", "fix typo"},
     states |-> {Resource(<<"a", "f1">>, "modified", NoUri),
                 Resource(<<"a", "new">>, "added", <<"a", "old">>),
                 Resource(<<"b", "n2">>, "added", <<"b", "o2">>),
                 OtherState(<<"b", "f6">>)},
     results |-> {FulfilledOp("Committed revision 5."),
                  RejectedOp("svn: E155004: locked")}]

InitCommitCmd == env = EnvCommit /\ InitExec /\ InitCmd

NextCommit ==
    \/ \E rs \in SeqsUpTo(env.states, MaxSelection),
          active \in {<<>>} \cup {<<s>> : s \in env.states} :
          CommitStart(rs, active)
    \/ \E g \in 1..MaxSelection : CommitMessageDismissed(g)
    \/ \E g \in 1..MaxSelection, text \in env.messages :
          CommitMessageEntered(g, text)
    \/ \E g \in 1..MaxSelection, result \in env.results :
          GroupCommitSettles(g, result)
    \/ CommitReturns

SpecCommit == InitCommitCmd /\ [][NextCommit]_vars

\* both commit commands
NextCommitAny == NextCommitWithMessage \/ NextCommit

SpecCommitAny == InitCommitCmd /\ [][NextCommitAny]_vars

\* one working copy with up to three conflicted files
EnvResolveAll ==
    [roots |-> {<<"a">>},
     uris |-> {<<"a", "c1">>, <<"a", "c2">>, <<"a", "c3">>},
     results |-> {FulfilledOp("Resolved conflicted state"),
                  RejectedOp("svn: E155004: locked")}]

InitResolveAll == env = EnvResolveAll /\ InitExec /\ InitCmd

NextResolveAll ==
    \/ \E repo \in env.roots, conflicts \in SeqsUpTo(env.uris, MaxSelection) :
          ResolveAllStart(repo, conflicts)
    \/ ConflictPickDismissed
    \/ \E label \in ConflictPicks : ConflictPicked(label)
    \/ \E result \in env.results : ConflictResolveSettles(result)

SpecResolveAll == InitResolveAll /\ [][NextResolveAll]_vars

\* conflicted files of two working copies and a file of an unmanaged folder
EnvResolved ==
    [roots |-> {<<"a">>, <<"b">>},
     uris |-> {<<"a", "c1">>, <<"a", "c2">>, <<"a", "c3">>, <<"b", "c4">>,
               <<"b", "c5">>, <<"b", "c6">>, <<"tmp", "f4">>},
     answers |-> {"Yes", "No", None},
     results |-> {FulfilledOp("Resolved conflicted state"),
                  RejectedOp("svn: E155004: locked"),
                  RejectedOp("svn: E155007: not a working copy")}]

InitResolved == env = EnvResolved /\ InitExec /\ InitCmd

NextResolved ==
    \/ \E uri \in {NoUri} \cup env.uris, auto \in BOOLEAN :
          ResolvedStart(uri, auto)
    \/ \E pick \in env.answers : ResolvedAnswered(pick)
    \/ \E g \in 1..MaxSelection, result \in env.results :
          RepositoryResolveSettles(g, result)
    \/ ResolveReturns

SpecResolved == InitResolved /\ [][NextResolved]_vars

\* every status the endpoints distinguish and one they do not, with and
\* without a rename source, against no revision, BASE and HEAD
EnvDiff ==
    [types |-> {"added", "conflicted", "ignored", "modified", "unversioned",
                "replaced", "deleted", "missing", "normal"},
     uris |-> {<<"a", "f1">>, <<"a", "d", "f2">>},
     renames |-> {NoUri, <<"a", "old">>, <<"a", "e", "old">>},
     againsts |-> {"", "BASE", "HEAD"},
     stats |-> {"file", "directory", "missing"}]

InitDiff ==
    /\ env = EnvDiff
    /\ InitExec
    /\ cmd = "idle"
    /\ selection = <<>>
    /\ choice = None
    /\ uris = <<>>
    /\ groups = <<>>
    /\ promises = <<>>
    /\ allPromise = PendingAll
    /\ repoCalls = <<>>
    /\ console = <<>>
    /\ cmdOutcome = PendingOp
    /\ classified = NoClassified
    /\ InitRevert
    /\ InitCommit
    /\ \E type \in env.types, uri \in env.uris, rename \in env.renames,
          against \in env.againsts, stat \in env.stats :
           opened = [NoOpened EXCEPT
                        !.resource = Resource(uri, type, rename),
                        !.against = against,
                        !.stat = stat]

NextDiff == OpenResource /\ UNCHANGED <<env, execVars, cmd, selection, choice,
                                        uris, groups, promises, allPromise,
                                        repoCalls, cmdOutcome, classifyVars,
                                        commitVars, loopVars, revertVars>>

SpecDiff == InitDiff /\ [][NextDiff]_vars

\* documents of a file, of an unsaved buffer and of a BASE view, clean and
\* dirty; the BASE text may fail to open
EnvRevert ==
    [schemes |-> {"file", "untitled", "svn"},
     contents |-> {Text("m1"), Text("m2")},
     originals |-> {Text("b1"), Text("b2"), NoText},
     changes |-> {"c1", "c2"},
     answers |-> {Yes, None}]

InitRevertChanges == env = EnvRevert /\ InitExec /\ InitCmd

NextRevert ==
    \/ \E scheme \in env.schemes, content \in env.contents,
          isDirty \in BOOLEAN, onDisk \in env.contents,
          changes \in env.changes :
          RevertChangesStart(Document(scheme, content, isDirty), onDisk, changes)
    \/ \E result \in env.originals : OpenTextDocumentSettles(result)
    \/ \E answer \in env.answers : ShowWarningAnswered(answer)
    \/ EditApplied
    \/ EditRefused
    \/ \E ok \in BOOLEAN : DocumentSaved(ok)

SpecRevert == InitRevertChanges /\ [][NextRevert]_vars

-----------------------------------------------------------------------------
(* Properties of Svn.exec *)

\* the call went through the continuation of the await (svn.ts 143-194)
Continued == pc = "settled" /\ exitPromise.state = "resolved"

\* the listeners of calls that have settled
SettledListeners == {l \in listeners : l[1] < calls \/ pc = "settled"}

\* C1: every listener an exec call registered on the child process and on
\* its streams is removed by the time the call settles, on every exit path
\* (normal completion and launch failure alike).
C1_ListenersReleasedOnEveryPath == SettledListeners = {}

\* C2: exec resolves, or builds its non-zero-exit error, only after the
\* process emitted 'exit' and both streams emitted 'close'; the stdout and
\* stderr it reports are the concatenation, in arrival order, of every chunk
\* the respective stream emitted.
C2_SettlesAfterExitAndBothCloses ==
    (outcome.kind = "resolved" \/ outcome.class = "SvnError") =>
        /\ procState = "exited"
        /\ ~stdoutOpen
        /\ ~stderrOpen
        /\ outcome.stderr = Flatten(stderrSeen)
        /\ outcome.stdout = decode(Flatten(stdoutSeen), outcome.encoding)

C2_Witness ==
    /\ pc = "settled"
    /\ outcome.class = "SvnError"
    /\ Len(stdoutSeen) = 2 /\ stdoutSeen[1] # stdoutSeen[2]
    /\ Len(stderrSeen) = 2 /\ stderrSeen[1] # stderrSeen[2]

\* C4: when the child process cannot be launched (it emits 'error' with an
\* ENOENT message) exec rejects with an SvnError whose svnErrorCode is the
\* value the vocabulary binds to NotASvnRepository.
C4_LaunchFailureIsNotASvnRepository ==
    (pc = "settled" /\ HasENOENT(procError.message)) =>
        /\ outcome.kind = "rejected"
        /\ outcome.class = "SvnError"
        /\ outcome.svnErrorCode = svnErrorCodes["NotASvnRepository"]

\* C5: every invocation that exits with a non-zero code is rejected with an
\* SvnError carrying the classifier's code for the captured stderr, the
\* decoded stdout, the raw stderr, the exit code, and the stderr with the
\* 'svn: E<digits>: ' prefix removed from every line that starts with it.
C5_NonZeroExitGivesExecutionError ==
    (Continued /\ Truthy(exitPromise.value)) =>
        /\ outcome.kind = "rejected"
        /\ outcome.class = "SvnError"
        /\ outcome.svnErrorCode = getSvnErrorCode(Flatten(stderrSeen))
        /\ outcome.stdout = decode(Flatten(stdoutSeen), outcome.encoding)
        /\ outcome.stderr = Flatten(stderrSeen)
        /\ outcome.exitCode = exitPromise.value
        /\ outcome.stderrFormated = stderrFormated(Flatten(stderrSeen))

\* C6: an SvnError is produced only for a non-zero exit, and whenever the
\* process exits with code 0 exec resolves with {exitCode, decoded stdout,
\* raw stderr}, also when stderr is not empty.
C6_ZeroExitResolves ==
    /\ outcome.class = "SvnError" =>
           exitPromise.state = "resolved" /\ exitPromise.value # <<0>>
    /\ (Continued /\ exitPromise.value = <<0>>) =>
           /\ outcome.kind = "resolved"
           /\ outcome.exitCode = <<0>>
           /\ outcome.stdout = decode(Flatten(stdoutSeen), outcome.encoding)
           /\ outcome.stderr = Flatten(stderrSeen)

\* C27: exec waits only for the exit of the process and the close of the
\* streams: once the process has emitted 'exit' and both streams 'close',
\* or the process has emitted 'error', exec eventually settles; and exec
\* never settles while the process has not exited or a stream has not
\* closed, unless the process emitted 'error'.
C27_SettlesExactlyOnExitAndCloses ==
    /\ ContinuationQueued ~> pc = "settled"
    /\ [](pc = "settled" =>
             \/ exitPromise.state = "rejected"
             \/ procState = "exited" /\ ~stdoutOpen /\ ~stderrOpen)

\* the process has exited and stdout has closed, stderr has not: exec waits
C27_Witness ==
    /\ pc = "awaiting"
    /\ procState = "exited"
    /\ ~stdoutOpen
    /\ stderrOpen
    /\ exitPromise.state = "resolved"
    /\ outcome = NoOutcome

\* C28: exec resolves with a result only when the exit code of the process
\* is exactly 0; every other termination, the one by a signal whose 'exit'
\* event carries no numeric code included, is rejected.
C28_ResolvesOnlyOnExitCodeZero ==
    outcome.kind = "resolved" => outcome.exitCode = <<0>>

\* the user names and passwords handed over through options
Secrets ==
    ({o.username : o \in env.options} \cup {o.password : o \in env.options})
        \ {""}

\* C29: no invocation echo on the diagnostic stream contains a user name or
\* a password supplied through options, over any sequence of exec calls on
\* one instance, the caller passing one array to several calls included.
C29_EchoHidesCredentials ==
    \A i \in 1..Len(output) :
        output[i].kind = "echo" =>
            \A j \in 1..Len(output[i].args) :
                output[i].args[j].text \notin Secrets

\* the step is an exec call with this cwd and these options
IsExecCall(cwd, opts) ==
    \E argv \in env.argvs \cup {args} : ExecBegin(cwd, argv, opts)

\* C30: the echo of an exec call with a non-empty cwd is prefixed with the
\* last segment of that call's own cwd, also when an earlier call on the
\* instance is still in flight; a call with an empty cwd is prefixed with
\* the last segment of the most recent non-empty cwd of an earlier call (the
\* remembered lastCwd, which only exec calls with a non-empty cwd change)
\* and leaves options.cwd as the caller set it.
C30_EchoPrefixIsOwnOrLastCwd ==
    [][/\ calls' = calls => lastCwd' = lastCwd
       /\ \A cwd \in env.cwds, opts \in env.options :
              IsExecCall(cwd, opts) =>
                  /\ opts.log # FALSE =>
                         /\ output' # <<>>
                         /\ output'[1].kind = "echo"
                         /\ output'[1].prefix =
                                IF cwd # <<>> THEN cwd[Len(cwd)]
                                ELSE IF lastCwd # <<>>
                                     THEN lastCwd[Len(lastCwd)] ELSE ""
                  /\ lastCwd' = IF cwd # <<>> THEN cwd ELSE lastCwd
                  /\ options'.cwd = IF cwd # <<>> THEN cwd ELSE opts.cwd
      ]_vars

\* a second call with an empty cwd and a cwd of its own in options, made
\* while the first call, which had a cwd, is still in flight
C30_Witness ==
    /\ calls = 2
    /\ pc = "awaiting"
    /\ <<1, "process", "exit">> \in listeners
    /\ lastCwd = <<"home", "wc">>
    /\ options.cwd = <<"opt", "dir">>
    /\ output # <<>>
    /\ output[1].kind = "echo"
    /\ output[1].prefix = "wc"

-----------------------------------------------------------------------------
(* Properties of the encoding resolution *)

HasXml == Includes(args, "--xml")

\* the statistical guess is accepted: confidence above 0.8, supported name
GuessAccepted ==
    read.guess.confidence > ConfidenceThreshold
    /\ encodingExists(read.guess.encoding)

\* C7: with '--xml' among the arguments stdout is decoded as UTF-8, whatever
\* the configured default.encoding, the per-call hint and the bytes.
C7_XmlIsDecodedAsUtf8 ==
    (Continued /\ HasXml) =>
        /\ outcome.encoding = "utf8"
        /\ outcome.stdout = DecodeUtf8(Flatten(stdoutSeen))

C7_Witness ==
    /\ Continued /\ HasXml
    /\ read.hint = "windows-1252"
    /\ read.defaultEncoding = "ascii"
    /\ ~isUtf8(Flatten(stdoutSeen))
    /\ outcome.kind = "resolved"

\* C8 as stated: without '--xml' and with a supported default.encoding,
\* stdout is decoded with the configured encoding when the bytes are not
\* valid UTF-8 and with UTF-8 when they are, for every per-call hint.
C8_ConfiguredElseUtf8 ==
    (Continued /\ ~HasXml /\ encodingExists(read.defaultEncoding)) =>
        IF ~isUtf8(Flatten(stdoutSeen))
        THEN outcome.encoding = read.defaultEncoding
        ELSE Codec(outcome.encoding) = "utf8"

\* C8 amended: without '--xml' and with a supported default.encoding, the
\* decoder is given the configured encoding when the bytes are not valid
\* UTF-8, and otherwise the per-call hint (UTF-8 when no hint was passed).
C8_ConfiguredElseHint ==
    (Continued /\ ~HasXml /\ encodingExists(read.defaultEncoding)) =>
        /\ outcome.encoding = IF ~isUtf8(Flatten(stdoutSeen))
                              THEN read.defaultEncoding ELSE read.hint
        /\ encodingExists(outcome.encoding) =>
               outcome.stdout = decode(Flatten(stdoutSeen), outcome.encoding)

C8_Witness ==
    /\ Continued /\ ~HasXml
    /\ read.defaultEncoding = "ascii"
    /\ read.hint = "windows-1252"
    /\ Flatten(stdoutSeen) = <<195, 169>>
    /\ outcome.stdout = <<195, 169>>

\* C9 as stated: without '--xml' and with an unsupported default.encoding,
\* exec logs a diagnostic line and chooses the encoding by detection, as if
\* no default encoding were configured (guess if accepted, else UTF-8).
C9_InvalidFallsThroughToDetection ==
    (Continued /\ ~HasXml /\ read.defaultEncoding # NoEncoding
       /\ ~encodingExists(read.defaultEncoding)) =>
        /\ Includes(output, InvalidEncodingLine(read.defaultEncoding))
        /\ outcome.encoding =
               IF GuessAccepted THEN read.guess.encoding ELSE "utf8"

\* C9 amended: without '--xml' and with an unsupported default.encoding,
\* exec logs a diagnostic line, runs no detection, and gives the decoder
\* the per-call hint (UTF-8 when no hint was passed).
C9_InvalidKeepsHint ==
    (Continued /\ ~HasXml /\ read.defaultEncoding # NoEncoding
       /\ ~encodingExists(read.defaultEncoding)) =>
        /\ Includes(output, InvalidEncodingLine(read.defaultEncoding))
        /\ ~read.detected
        /\ outcome.encoding = read.hint

C9_Witness ==
    /\ Continued /\ ~HasXml
    /\ read.defaultEncoding = "x-invalid"
    /\ GuessAccepted
    /\ read.hint = "utf8"
    /\ ~isUtf8(Flatten(stdoutSeen))
    /\ outcome.kind = "resolved"

\* C10 as stated: without '--xml' and with no default.encoding, stdout is
\* decoded with the guess exactly when its confidence is above 0.8 and its
\* encoding is supported, and as UTF-8 in every other case, for every hint.
C10_GuessElseUtf8 ==
    (Continued /\ ~HasXml /\ read.defaultEncoding = NoEncoding) =>
        outcome.encoding = IF GuessAccepted THEN read.guess.encoding ELSE "utf8"

\* C10 amended: without '--xml' and with no default.encoding, the decoder
\* is given the guess when its confidence is above 0.8 and its encoding is
\* supported, and otherwise the per-call hint (UTF-8 when no hint was
\* passed).
C10_GuessElseHint ==
    (Continued /\ ~HasXml /\ read.defaultEncoding = NoEncoding) =>
        /\ read.detected
        /\ outcome.encoding =
               IF GuessAccepted THEN read.guess.encoding ELSE read.hint
        /\ encodingExists(outcome.encoding) =>
               outcome.stdout = decode(Flatten(stdoutSeen), outcome.encoding)

C10_Witness ==
    /\ Continued /\ ~HasXml
    /\ read.defaultEncoding = NoEncoding
    /\ read.guess = Guess("windows-1252", ConfidenceThreshold)
    /\ read.hint = "windows-1252"
    /\ outcome.kind = "resolved"

\* C11: decoding never makes exec fail: for every per-call hint, every
\* configured default.encoding, every detector guess and every argument
\* vector, the encoding name handed to the decoder is a supported encoding,
\* and the outcome is the one the exit code alone decides.
C11_DecoderEncodingSupported ==
    Continued =>
        /\ encodingExists(outcome.encoding)
        /\ outcome.kind = IF Truthy(exitPromise.value)
                          THEN "rejected" ELSE "resolved"
        /\ outcome.kind = "rejected" => outcome.class = "SvnError"

-----------------------------------------------------------------------------
(* Properties of the diagnostic output *)

\* the lines of the kind emitted by the current call
LinesOf(kind) == SelectSeq(output, LAMBDA l : l.kind = kind)

\* C23 as stated: an exec call made with options.log === false emits
\* nothing at all on the diagnostic output, from start to settlement, for
\* every argument vector, configuration and process outcome.
C23_LogFalseEmitsNothing ==
    (pc # "idle" /\ options.log = FALSE) => output = <<>>

\* C23 amended: an exec call made with options.log === false emits neither
\* the invocation echo nor the stderr passthrough; the only line it can
\* emit is the notice of an invalid default.encoding, which it emits once,
\* after the process has ended, exactly when the arguments lack '--xml' and
\* the configured default.encoding is not a supported encoding.
C23_LogFalseEmitsOnlyEncodingNotice ==
    (pc # "idle" /\ options.log = FALSE) =>
        /\ LinesOf("echo") = <<>>
        /\ LinesOf("stderr") = <<>>
        /\ output = IF Continued
                       /\ InvalidEncodingLogged(args, read.defaultEncoding)
                    THEN <<InvalidEncodingLine(read.defaultEncoding)>>
                    ELSE <<>>

C23_Witness ==
    /\ Continued
    /\ options.log = FALSE
    /\ Flatten(stderrSeen) # <<>>
    /\ outcome.class = "SvnError"
    /\ output = <<InvalidEncodingLine("x-invalid")>>

\* C26: with logging enabled, each exec call emits exactly one invocation
\* echo, before the child process is spawned; the stderr passthrough of the
\* call is emitted iff stderr is not empty, exactly once, after the echo
\* and after the process has exited and both streams have closed, on zero
\* and on non-zero exit alike.
C26_EchoThenStderrOnce ==
    (pc # "idle" /\ options.log # FALSE) =>
        /\ Len(LinesOf("echo")) = 1
        /\ output[1] = EchoLine(lastCwd, SubSeq(args, 1, Len(output[1].args)))
        /\ Len(LinesOf("stderr")) <= 1
        /\ LinesOf("stderr") # <<>> =>
               /\ procState = "exited" /\ ~stdoutOpen /\ ~stderrOpen
               /\ LinesOf("stderr") = <<StderrLine(Flatten(stderrSeen))>>
        /\ Continued =>
               (LinesOf("stderr") # <<>> <=> Flatten(stderrSeen) # <<>>)

-----------------------------------------------------------------------------
(* Properties of the classifier *)

KnownCodes == {svnErrorCodes[svnErrorCodeNames[i]] :
                   i \in 1..Len(svnErrorCodeNames)}

\* the known codes that occur in the text
TokensIn(text) == {c \in KnownCodes : \E i \in 1..Len(text) : text[i] = c}

\* the known codes that occur in the text directly after "svn: "
PrefixedTokensIn(text) ==
    {c \in KnownCodes :
        \E i \in 2..Len(text) : text[i - 1] = "svn: " /\ text[i] = c}

HasPhrase(text) == \E i \in 1..Len(text) : text[i] = CredentialsPhrase

\* C12 as stated: getSvnErrorCode returns the bound code for every stderr
\* that contains a known error token, the AuthorizationFailed code for a
\* stderr that contains only the credential-exhaustion phrase, and none for
\* a stderr that contains neither.
C12_TokenGivesBoundCode ==
    classified.returned =>
        LET text == classified.stderr
        IN  /\ TokensIn(text) # {} => classified.svnErrorCode \in TokensIn(text)
            /\ (TokensIn(text) = {} /\ HasPhrase(text)) =>
                   classified.svnErrorCode = svnErrorCodes["AuthorizationFailed"]
            /\ (TokensIn(text) = {} /\ ~HasPhrase(text)) =>
                   classified.svnErrorCode = None

\* C12 amended: getSvnErrorCode returns the bound code for every stderr
\* that contains a known error token directly after the tool prefix
\* "svn: "; when no token occurs after the prefix it returns the
\* AuthorizationFailed code if the stderr contains the credential-exhaustion
\* phrase, and none otherwise.
C12_PrefixedTokenGivesBoundCode ==
    classified.returned =>
        LET text == classified.stderr
        IN  /\ PrefixedTokensIn(text) # {} =>
                   classified.svnErrorCode \in PrefixedTokensIn(text)
            /\ (PrefixedTokensIn(text) = {} /\ HasPhrase(text)) =>
                   classified.svnErrorCode = svnErrorCodes["AuthorizationFailed"]
            /\ (PrefixedTokensIn(text) = {} /\ ~HasPhrase(text)) =>
                   classified.svnErrorCode = None

C12_Witness ==
    /\ classified.returned
    /\ classified.stderr = <<"E155004", "svn: ", "E155036">>
    /\ classified.svnErrorCode = "E155036"

\* the position of a known code in the table
TableIndex(code) ==
    CHOOSE i \in 1..Len(svnErrorCodeNames) :
        svnErrorCodes[svnErrorCodeNames[i]] = code

\* the code of the set that comes first in table order
FirstInTable(codes) ==
    CHOOSE c \in codes : \A d \in codes : TableIndex(c) <= TableIndex(d)

\* C24 as stated: when stderr contains several known tokens the classifier
\* returns the code of the one that comes first in table order, whatever
\* their positions in the text, and the credential-exhaustion phrase is
\* consulted only when no token is found (a stderr with a non-authorization
\* token and the phrase gives the token's code).
C24_FirstTokenInTableOrder ==
    (classified.returned /\ TokensIn(classified.stderr) # {}) =>
        classified.svnErrorCode = FirstInTable(TokensIn(classified.stderr))

\* C24 amended: when stderr contains several known tokens directly after
\* the prefix "svn: ", the classifier returns the code of the one that
\* comes first in table order, whatever their positions in the text; the
\* phrase is consulted only when no prefixed token is found.
C24_FirstPrefixedTokenInTableOrder ==
    classified.returned =>
        IF PrefixedTokensIn(classified.stderr) # {}
        THEN classified.svnErrorCode
                 = FirstInTable(PrefixedTokensIn(classified.stderr))
        ELSE classified.svnErrorCode \in {None, svnErrorCodes["AuthorizationFailed"]}

\* a later table entry comes first in the text
C24_Witness ==
    /\ classified.returned
    /\ classified.stderr = <<"svn: ", "E155036", "svn: ", "E155004">>
    /\ classified.svnErrorCode = "E155004"

-----------------------------------------------------------------------------
(* Properties of runByRepository *)

\* runByRepository has built its groups and called fn on each of them
Dispatched == cmd = "dispatched"

\* how often x occurs in the sequence s
Count(s, x) == Cardinality({i \in 1..Len(s) : s[i] = x})

\* the groups a path occurs in
GroupsOf(path) ==
    {g \in 1..Len(groups) : Count(groups[g].resources, path) > 0}

Resolvable(path) == getRepository(env.roots, path) # NoRepository

\* every resolvable input path is in the group of its owner and in no other
\* group, every unresolvable input path is in no group, nothing else is in
\* a group, and fn was called on every group
GroupedByOwner ==
    /\ \A i \in 1..Len(uris) :
           IF Resolvable(uris[i])
           THEN \E g \in 1..Len(groups) :
                    /\ GroupsOf(uris[i]) = {g}
                    /\ groups[g].repository = getRepository(env.roots, uris[i])
           ELSE GroupsOf(uris[i]) = {}
    /\ \A g \in 1..Len(groups) : \A k \in 1..Len(groups[g].resources) :
           Count(uris, groups[g].resources[k]) > 0
    /\ Len(promises) = Len(groups)

\* C13 as stated: the groups are a partition of the input: every resolvable
\* path is in exactly one group, the group of its owner, every unresolvable
\* path is in no group and does not fail the batch, and no path appears
\* twice across or within the groups, for every input collection.
C13_GroupingIsPartition ==
    Dispatched =>
        /\ GroupedByOwner
        /\ \A g \in 1..Len(groups) : \A k \in 1..Len(groups[g].resources) :
               Count(groups[g].resources, groups[g].resources[k]) = 1

\* C13 amended: every resolvable input path is in exactly one group, the
\* group of its owner, as many times as it occurs in the input; every
\* unresolvable path is in no group and does not fail the batch.
C13_GroupingKeepsOccurrences ==
    Dispatched =>
        /\ GroupedByOwner
        /\ \A g \in 1..Len(groups) : \A k \in 1..Len(groups[g].resources) :
               Count(groups[g].resources, groups[g].resources[k])
                   = Count(uris, groups[g].resources[k])

C13_Witness ==
    /\ Dispatched
    /\ uris = << <<"a", "f1">>, <<"tmp", "f4">>, <<"a", "f1">> >>
    /\ Len(groups) = 1
    /\ groups[1].resources = << <<"a", "f1">>, <<"a", "f1">> >>
    /\ Len(promises) = 1

\* the owners of the input paths
Owners == {getRepository(env.roots, uris[i]) : i \in 1..Len(uris)}
              \ {NoRepository}

\* the first position of the input with a path of the repository
FirstOf(repository) ==
    CHOOSE i \in 1..Len(uris) :
        /\ getRepository(env.roots, uris[i]) = repository
        /\ \A j \in 1..(i - 1) : getRepository(env.roots, uris[j]) # repository

\* the calls fn made on the repositories, one per group
FnCalls == SubSeq(repoCalls, Len(repoCalls) - Len(groups) + 1, Len(repoCalls))

\* C14: runByRepository calls the op exactly once per distinct owning
\* repository; the groups are ordered by the first occurrence of their
\* repository in the input and keep their paths in input order; the ops of
\* all groups are started before any of them is awaited; the results are in
\* group order whatever order the ops complete in.
C14_OncePerRepositoryInOrder ==
    Dispatched =>
        /\ {groups[g].repository : g \in 1..Len(groups)} = Owners
        /\ Len(groups) = Cardinality(Owners)
        /\ \A g, h \in 1..Len(groups) :
               g < h => FirstOf(groups[g].repository)
                            < FirstOf(groups[h].repository)
        /\ \A g \in 1..Len(groups) :
               groups[g].resources =
                   SelectSeq(uris, LAMBDA u : getRepository(env.roots, u)
                                                 = groups[g].repository)
        /\ Len(repoCalls) >= Len(groups)
        /\ \A g \in 1..Len(groups) :
               /\ FnCalls[g].repository = groups[g].repository
               /\ FnCalls[g].files = groups[g].resources
        /\ Len(promises) = Len(groups)
        /\ allPromise.state = "fulfilled" =>
               /\ Len(allPromise.value) = Len(groups)
               /\ \A g \in 1..Len(groups) :
                      allPromise.value[g] = promises[g].value

\* two groups, the second op has completed and the first has not
C14_Witness ==
    /\ Dispatched
    /\ uris = << <<"b", "f2">>, <<"a", "f1">>, <<"b", "f2">> >>
    /\ Len(groups) = 2
    /\ groups[1].repository = <<"b">>
    /\ promises[1].state = "pending"
    /\ promises[2].state = "fulfilled"

\* every group's fn has settled
AllOpsSettled ==
    cmd \in {"dispatched", "done"}
    /\ \A g \in 1..Len(promises) : promises[g].state # "pending"

\* C3: when a batch spans two or more repository groups and the op of one
\* group fails, the ops of the other groups are still run and their results
\* are still returned to the caller of runByRepository.
C3_SiblingResultsReturned ==
    (/\ Len(groups) >= 2
     /\ AllOpsSettled
     /\ \E g \in 1..Len(promises) : promises[g].state = "rejected") =>
        /\ \A g \in 1..Len(groups) :
               \E c \in 1..Len(repoCalls) :
                   /\ repoCalls[c].repository = groups[g].repository
                   /\ repoCalls[c].files = groups[g].resources
        /\ \A g \in 1..Len(promises) :
               promises[g].state = "fulfilled" =>
                   /\ allPromise.state = "fulfilled"
                   /\ allPromise.value[g] = promises[g].value

-----------------------------------------------------------------------------
(* Properties of svn.commitWithMessage *)

\* the calls of repository.commitFiles made so far
CommitFilesCalls == SelectSeq(repoCalls, LAMBDA c : c.method = "commitFiles")

\* the window has shown an entry of the kind
HasShown(kind) == \E i \in 1..Len(ui) : ui[i].kind = kind

\* C15: commitWithMessage invoked with an empty pending message returns
\* immediately: the changelist prompt is not shown, commitFiles is never
\* called, and the pending message is left as it was.
C15_EmptyMessageReturnsAtOnce ==
    cmdMessage = "" =>
        /\ cmd = "done"
        /\ cmdOutcome = FulfilledOp(None)
        /\ ~HasShown("inputCommitChangelist")
        /\ CommitFilesCalls = <<>>
        /\ inputBox = ""

C15_Witness ==
    /\ cmdMessage = ""
    /\ cmd = "done"
    /\ cmdRepository = <<"a">>

\* C16: commitWithMessage clears the pending message if and only if
\* commitFiles succeeded; when commitFiles fails the error is shown and
\* the message is unchanged; when the changelist prompt is dismissed the
\* message is unchanged and commitFiles is not called.
C16_ClearedIffCommitted ==
    (cmdMessage # None /\ cmdMessage # "") =>
        /\ cmd \in {"changelist", "committing"} => inputBox = cmdMessage
        /\ cmd = "done" =>
               /\ inputBox = "" <=>
                      (promises # <<>> /\ promises[1].state = "fulfilled")
               /\ (promises # <<>> /\ promises[1].state = "fulfilled") =>
                      Last(ui) = Shown("showInformationMessage",
                                       promises[1].value)
               /\ inputBox # "" => inputBox = cmdMessage
               /\ (promises # <<>> /\ promises[1].state = "rejected") =>
                      /\ Last(ui) = Shown("showErrorMessage", promises[1].value)
                      /\ Len(CommitFilesCalls) = 1
               /\ promises = <<>> => CommitFilesCalls = <<>>
        /\ Len(CommitFilesCalls) <= 1

C16_Witness ==
    /\ cmd = "done"
    /\ cmdMessage = "fix typo"
    /\ inputBox = "fix typo"
    /\ promises = <<RejectedOp("svn: E155004: locked")>>
    /\ Len(CommitFilesCalls) = 1

-----------------------------------------------------------------------------
(* Properties of the commit commands *)

\* the elements of a sequence
Elems(s) == {s[i] : i \in 1..Len(s)}

\* C17: for every selected resource that is ADDED and has a rename source,
\* the path set of the commitFiles call that contains the new path also
\* contains the rename-source path, in commitWithMessage and in svn.commit,
\* where the paths go through the grouping of runByRepository.
C17_RenameSourceCommittedWithNewPath ==
    \A c \in 1..Len(CommitFilesCalls) : \A i \in 1..Len(selection) :
        (IsRenamed(selection[i])
           /\ fsPath(selection[i].resourceUri)
                  \in Elems(CommitFilesCalls[c].files)) =>
            fsPath(selection[i].renameResourceUri)
                \in Elems(CommitFilesCalls[c].files)

\* svn.commit of two renamed files of two working copies, both committed
C17_Witness ==
    /\ cmd = "dispatched"
    /\ Len(selection) = 2
    /\ IsRenamed(selection[1]) /\ IsRenamed(selection[2])
    /\ Len(groups) = 2
    /\ Len(CommitFilesCalls) = 2
    /\ \E c \in 1..2 :
           CommitFilesCalls[c].files = << <<"a", "new">>, <<"a", "old">> >>

\* the commitFiles calls made on the repository of group g
CallsOfGroup(g) ==
    SelectSeq(CommitFilesCalls,
              LAMBDA c : c.repository = groups[g].repository)

\* C18: in svn.commit, repository.commitFiles is never invoked when the
\* selection is empty, when the message prompt is dismissed, or when the
\* entered message is empty.
C18_NoCommitWithoutSelectionOrMessage ==
    /\ selection = <<>> => CommitFilesCalls = <<>>
    /\ \A g \in 1..Len(fnPc) :
           fnPc[g] \in {"prompt", "dismissed"} => CallsOfGroup(g) = <<>>
    /\ \A c \in 1..Len(CommitFilesCalls) : CommitFilesCalls[c].message # ""

-----------------------------------------------------------------------------
(* Properties of svn.resolveAll and svn.resolved *)

\* the calls of repository.resolve made so far
ResolveCalls == SelectSeq(repoCalls, LAMBDA c : c.method = "resolve")

\* the quick picks shown so far
ConflictPrompts == SelectSeq(ui, LAMBDA s : s.kind = "showQuickPick")

\* the resolve calls that have settled
SettledResolves == SelectSeq(promises, LAMBDA q : q.state # "pending")

\* C19: resolveAll handles the conflicts one at a time in list order: each
\* resolve call carries exactly one path, the prompt of the next conflict
\* is shown only after the previous resolve has settled, a dismissed prompt
\* ends the loop with no resolve for that conflict or a later one, and
\* otherwise every conflict is processed, a failed resolve not ending the
\* loop.
C19_ConflictsOneAtATimeInOrder ==
    /\ \A c \in 1..Len(ResolveCalls) :
           /\ c <= Len(selection)
           /\ ResolveCalls[c].files = <<selection[c]>>
    /\ \A k \in 1..Len(ConflictPrompts) :
           /\ k <= Len(selection)
           /\ ConflictPrompts[k] = ConflictPrompt(selection[k])
    /\ Len(SettledResolves) <= Len(ResolveCalls)
    /\ Len(ResolveCalls) <= Len(ConflictPrompts)
    /\ Len(ConflictPrompts) <= Len(SettledResolves) + 1
    /\ cmd = "conflictPick" => Len(ConflictPrompts) = Len(ResolveCalls) + 1
    /\ cmd = "done" =>
           \/ Len(SettledResolves) = Len(selection)
           \/ /\ Len(ConflictPrompts) = Len(ResolveCalls) + 1
              /\ Len(SettledResolves) = Len(ResolveCalls)

\* three conflicts, the second resolve failed, the third was still made
C19_Witness ==
    /\ cmd = "done"
    /\ Len(selection) = 3
    /\ Len(ResolveCalls) = 3
    /\ promises[2].state = "rejected"
    /\ promises[3].state = "fulfilled"

\* C20: svn.resolved calls repository.resolve with 'working' only if
\* conflict.autoResolve is set or the user answered 'Yes' to the
\* confirmation; with autoResolve set no confirmation is shown; otherwise
\* any answer other than 'Yes', a dismissal included, gives no resolve call.
C20_ResolvedOnlyIfConfirmed ==
    /\ \A c \in 1..Len(ResolveCalls) :
           /\ ResolveCalls[c].action = "working"
           /\ autoResolve \/ choice = "Yes"
    /\ autoResolve => ~HasShown("showWarningMessage")
    /\ (~autoResolve /\ ResolveCalls # <<>>) =>
           /\ HasShown("showWarningMessage")
           /\ choice = "Yes"
    /\ (cmd = "done" /\ ~autoResolve /\ choice # "Yes") => ResolveCalls = <<>>
    /\ (cmd \in {"dispatched", "done"} /\ selection # <<>>
          /\ (autoResolve \/ choice = "Yes")
          /\ getRepository(env.roots, selection[1]) # NoRepository) =>
           /\ Len(ResolveCalls) = 1
           /\ ResolveCalls[1].files = selection

\* the user answered 'Yes' and the resolve was made
C20_Witness ==
    /\ ~autoResolve
    /\ HasShown("showWarningMessage")
    /\ choice = "Yes"
    /\ Len(ResolveCalls) = 1
    /\ ResolveCalls[1].action = "working"
    /\ cmd = "done"

-----------------------------------------------------------------------------
(* Properties of the diff endpoints *)

\* _openResource has computed the endpoints and the title
Opened == opened.shown # None

\* the title ends with the revision in parentheses
TitleNames(title, against) ==
    /\ Len(title) >= 3
    /\ SubSeq(title, Len(title) - 2, Len(title)) = <<" (", against, ")">>

\* a resource that is gone from the working copy, compared against BASE
RemovedAgainstBase ==
    /\ Opened
    /\ opened.resource.type \in {"deleted", "missing"}
    /\ opened.against = "BASE"

\* C21 as stated: for a resource with status DELETED or MISSING and against
\* = 'BASE', the left endpoint is the historical reference (svn SHOW uri at
\* BASE), the right endpoint is the historical reference too, and the
\* title includes '(BASE)'.
C21_RemovedHasReferenceOnBothSides ==
    RemovedAgainstBase =>
        /\ opened.left = SvnShowUri(opened.resource.resourceUri, "BASE")
        /\ opened.right = SvnShowUri(opened.resource.resourceUri, "BASE")
        /\ TitleNames(opened.title, "BASE")

\* C21 amended: for a resource with status DELETED or MISSING and against =
\* 'BASE' there is no left endpoint, the right endpoint is the historical
\* reference (svn SHOW uri at BASE), the title includes '(BASE)', and no
\* diff is opened.
C21_RemovedHasReferenceOnTheRight ==
    RemovedAgainstBase =>
        /\ opened.left = NoResource
        /\ opened.right = SvnShowUri(opened.resource.resourceUri, "BASE")
        /\ TitleNames(opened.title, "BASE")
        /\ opened.shown # "vscode.diff"

C21_Witness ==
    /\ RemovedAgainstBase
    /\ opened.resource.type = "deleted"
    /\ opened.right = SvnShowUri(<<"a", "d", "f2">>, "BASE")
    /\ opened.title = <<"f2", " (", "BASE", ")">>
    /\ opened.shown = "showTextDocument"

\* C25: the endpoint pair is determined by the status, the presence of a
\* rename source and 'against': ADDED with a rename source has the rename
\* source at 'against' on the left; CONFLICTED, MODIFIED and REPLACED have
\* the resource at 'against' on the left and the working file on the right;
\* IGNORED, UNVERSIONED and ADDED without rename have no left side and the
\* working file on the right; DELETED and MISSING have the historical
\* reference at 'against' on the right; computing the pair changes no state.
C25_EndpointTable ==
    Opened =>
        LET type == opened.resource.type
            uri == opened.resource.resourceUri
            rename == opened.resource.renameResourceUri
            against == opened.against
        IN  /\ (type = "added" /\ rename # NoUri) =>
                   /\ opened.left = SvnShowUri(rename, against)
                   /\ opened.right = WorkingFile(uri)
            /\ type \in {"conflicted", "modified", "replaced"} =>
                   /\ opened.left = SvnShowUri(uri, against)
                   /\ opened.right = WorkingFile(uri)
            /\ (type \in {"ignored", "unversioned"}
                  \/ (type = "added" /\ rename = NoUri)) =>
                   /\ opened.left = NoResource
                   /\ opened.right = WorkingFile(uri)
            /\ type \in {"deleted", "missing"} =>
                   opened.right = SvnShowUri(uri, against)
            /\ opened.right # NoResource =>
                   /\ console = <<>>
                   /\ ui = <<>>
                   /\ repoCalls = <<>>
                   /\ pc = "idle"

\* a renamed file compared against HEAD
C25_Witness ==
    /\ Opened
    /\ opened.resource = Resource(<<"a", "d", "f2">>, "added",
                                  <<"a", "e", "old">>)
    /\ opened.left = SvnShowUri(<<"a", "e", "old">>, "HEAD")
    /\ opened.right = WorkingFile(<<"a", "d", "f2">>)
    /\ opened.title = <<"old", " -> ", <<"..", "d", "f2">>, " (", "HEAD", ")">>
    /\ opened.shown = "vscode.diff"

-----------------------------------------------------------------------------
(* Properties of the error reporting of the commands *)

\* a repository call of the command has failed
SomeCallFailed ==
    \E g \in 1..Len(promises) : promises[g].state = "rejected"

\* C22: no failure of a repository operation started by a command is
\* silently discarded: when the repository call fails, the user is shown an
\* error message by the time the command has returned.
C22_FailureShownToUser ==
    (cmd = "done" /\ SomeCallFailed) => HasShown("showErrorMessage")

-----------------------------------------------------------------------------
(* Properties of revertChanges *)

\* whatever save() wrote is the reverted text of the edit
SavedContentIsReverted ==
    \A i \in 1..Len(saves) : edit.state # "none" /\ saves[i] = edit.text

\* without a file document or without the confirmation: no edit, no save
NoEditNoSaveUnlessConfirmed ==
    (revPc # "idle" /\ (document.scheme # "file" \/ revPick # Yes)) =>
        edit = NoEdit /\ saves = <<>>

\* C31: in revertChanges the document is saved only after the workspace
\* edit that replaces its content has been applied, so the saved file
\* always holds the reverted content; and no edit and no save happen when
\* the scheme of the document is not 'file' or the modal confirmation is
\* not answered with 'Revert Changes'.
C31_SavedAfterEditApplied ==
    /\ SavedContentIsReverted
    /\ NoEditNoSaveUnlessConfirmed

=============================================================================
